---------------------------- MODULE Spec2Model ----------------------------
(***************************************************************************)
(* Model of the caching proxy's shared response cache: the Robin-Hood      *)
(* hash table (hashmap.c), the circular recency list (list.c), the LRU     *)
(* cache built from both (cache.c) and the reader/writer token queue the   *)
(* proxy workers use around their cache accesses (proxy code in            *)
(* src/hashmap.h, lines 82..816).                                          *)
(*                                                                         *)
(* Memory is modelled as two heaps of cells (block_t with its key and      *)
(* value buffers; node_t).  free() marks a cell dead and keeps its last    *)
(* contents.  A dereference of a dead cell is undefined behaviour; its     *)
(* outcome is a choice: the access faults ("segv"), or it sees the last    *)
(* contents of the cell ("stale", what a build whose allocator does not    *)
(* recycle or scrub freed chunks produces).                                *)
(***************************************************************************)
EXTENDS Integers, Sequences, FiniteSets, TLC

(* ------------------------------ bounds -------------------------------- *)

\* number of distinct request keys the clients use
NumKeys == 3
\* largest max_size handed to cache_init; callers insert values of
\* 1 .. MaxCacheSize + 1 bytes
MaxCacheSize == 2
\* cells of the block heap / node heap (allocations per run)
MaxBlocks == 5
MaxNodes == 5
\* calls with undefined behaviour a run is followed through
MaxUb == 2
\* the same for the runs of unit-size entries (SpecLru)
MaxUbLru == 3
\* distinct uris the proxy's clients request
NumUris == 2
\* proxy workers (threads running thread_handle_relay)
NumWorkers == 3
\* SpecMap: the keys and the values given to the hash map
NumMapKeys == 4
NumMapVals == 2
\* SpecList: the values given to the list
NumListVals == 2
\* SpecSize: the tables have 2^0 .. 2^MaxDoublings bins
MaxDoublings == 21
\* SpecRelay: MAX_OBJECT_SIZE scaled down; the origin server's responses
\* are up to RelayObjectSize + 1 bytes long
RelayObjectSize == 4
\* SpecRace: the workers inside cache_find and the entries of the cache
NumRacers == 2
NumRaceKeys == 3
\* SpecReuse: the uris requested, the thread stacks pthread_create hands
\* out a second time, and the range -MaxCount..MaxCount of the queue's
\* counts within which further threads are created
NumReuseUris == 1
NumReused == 1
MaxCount == 2

(* ------------------------- program constants -------------------------- *)

NULL == 0
HASH_SEED == 5381
HASHMAP_MAX_GROWTH_STEP == 1048576

\* The key strings: one character followed by the terminating NUL, the
\* shape the proxy (strlen(uri) + 1) and the cache test ("a" + i, '\0') use.
\* 'a', 'e', 'i', 'm' have equal hashes modulo 4, 'b' sits in the next slot.
KeyChars == <<97, 101, 98, 105, 109, 102>>
Keys == { <<KeyChars[i], 0>> : i \in 1..NumKeys }

\* value buffers: size bytes, all equal to a fill byte
Fills == {1, 2}
Fill(b, n) == [i \in 1..n |-> b]

BlockIds == 1..MaxBlocks
NodeIds == 1..MaxNodes

Min(a, b) == IF a > b THEN b ELSE a
Max(a, b) == IF a > b THEN a ELSE b

\* v is what the statements so far have computed; F is the rest of the
\* function body, which refers to it any number of times
Bind(v, F(_)) == F(v)

(* ------------------------------ state --------------------------------- *)

VARIABLES
  cache,       \* cache_t *g_cache: [map, lru_list, size, max_size]
  blocks,      \* heap of block_t: [key, value, size, keylen, st]
  nodes,       \* heap of node_t: [next, prev, value, st]
  fault,       \* "none", or how the process stopped: "segv", "hang"
  uaf,         \* calls so far that dereferenced or freed a dead cell
  last,        \* the last cache call: [op, key, val, present, len, ret, oom]
  used,        \* history: the keys in the map, most recently used first;
               \* in SpecList the nodes in the list, the head's first
  hist,        \* history: the run so far, while it only inserts new keys
               \* of one value size: [on, keys, s]; in SpecMap the
               \* reference map: the latest value of each key, or NULL
  g_rw_queue,  \* rw_queue_t: [reading_count, writing_count, head, tail]
  toks,        \* the workers' rw_token_t stack objects: [is_reader, next]
  pc,          \* each worker's position in thread_handle_relay
  wkey,        \* each worker's request.uri
  response,    \* each worker's block_t *response
  wbuf,        \* each worker's accumulated upstream response [size, fill]
  locals       \* each worker's locals inside cache_find and the list
               \* functions it calls: [node, head_orig]

cacheVars == <<cache, blocks, nodes, fault, uaf, last, used, hist>>
proxyVars == <<g_rw_queue, toks, pc, wkey, response, wbuf, locals>>
vars == <<cache, blocks, nodes, fault, uaf, last, used, hist, g_rw_queue,
          toks, pc, wkey, response, wbuf, locals>>

(* ------------------------------ hashmap.c ----------------------------- *)

\* approx_85_percent, approx_40_percent: (x * 870) >> 10, (x * 409) >> 10
approx_85_percent(x) == (x * 870) \div 1024
approx_40_percent(x) == (x * 409) \div 1024

\* get_hash: djb2 over the key bytes.  size_t arithmetic wraps at 2^64; the
\* keys of the model are two bytes long, so the value stays below 2^23.
RECURSIVE hash_from(_, _, _)
hash_from(hash, key, i) ==
  IF i > Len(key) THEN hash
  ELSE hash_from(((hash * 32) + hash) + key[i], key, i + 1)

get_hash(key, keylen) == hash_from(HASH_SEED, SubSeq(key, 1, keylen), 1)

\* a bin as calloc leaves it
EmptyBin == [key |-> NULL, value |-> NULL, hash |-> 0, psl |-> 0, keylen |-> 0]

\* the bytes a key pointer refers to: bin->key points into a block's key buffer
KeyBytes(blks, p) == IF p = NULL THEN <<>> ELSE blks[p].key

\* memcmp(bin->key, key, keylen) == 0, guarded as in the code by the hash
\* and keylen comparisons (so an empty bin, keylen 0, never reaches memcmp)
bin_matches(blks, bin, key, keylen, hash) ==
  /\ bin.hash = hash
  /\ bin.keylen = keylen
  /\ SubSeq(KeyBytes(blks, bin.key), 1, keylen) = SubSeq(key, 1, keylen)

RECURSIVE find_probe(_, _, _, _, _, _, _)
find_probe(map, blks, key, keylen, hash, n, i) ==
  LET bin == map.bins[i] IN
  IF bin_matches(blks, bin, key, keylen, hash) THEN bin.value
  ELSE IF bin.key = NULL \/ n > bin.psl THEN NULL
  ELSE find_probe(map, blks, key, keylen, hash, n + 1, (i + 1) % map.size)

hashmap_find(map, blks, key, keylen) ==
  LET hash == get_hash(key, keylen) IN
  find_probe(map, blks, key, keylen, hash, 0, hash % map.size)

\* the number of bins the loop of hashmap_find looks at before it returns;
\* a count above 2 * map->size stands for a loop that is still running then
RECURSIVE find_probes(_, _, _, _, _, _, _)

\* a loop that ends at the key or at an empty bin only
find_probes_to_empty_bin(map, blks, key, keylen, hash, n, i) ==
  LET bin == map.bins[i] IN
  IF n > 2 * map.size THEN n + 1
  ELSE IF bin_matches(blks, bin, key, keylen, hash) THEN n + 1
  ELSE IF bin.key = NULL THEN n + 1
  ELSE find_probes(map, blks, key, keylen, hash, n + 1, (i + 1) % map.size)

find_probes(map, blks, key, keylen, hash, n, i) ==
  LET bin == map.bins[i] IN
  IF n > 2 * map.size THEN n + 1
  ELSE IF bin_matches(blks, bin, key, keylen, hash) THEN n + 1
  ELSE IF bin.key = NULL \/ n > bin.psl THEN n + 1
  ELSE find_probes(map, blks, key, keylen, hash, n + 1, (i + 1) % map.size)

\* the probe loop of hashmap_insert_no_resize; yields [bins, i, entry, dup]
RECURSIVE insert_probe(_, _, _, _, _, _, _)
\* a probe loop that never displaces the entry of a bin
insert_probe_no_swap(bins, size, blks, key, keylen, entry, i) ==
  LET bin == bins[i] IN
  IF bin.key # NULL THEN
    IF bin_matches(blks, bin, key, keylen, entry.orig) THEN
      [bins |-> bins, i |-> i, entry |-> entry, dup |-> TRUE]
    ELSE insert_probe(bins, size, blks, key, keylen,
                      [entry EXCEPT !.e.psl = @ + 1], (i + 1) % size)
  ELSE [bins |-> bins, i |-> i, entry |-> entry, dup |-> FALSE]

insert_probe(bins, size, blks, key, keylen, entry, i) ==
  LET bin == bins[i] IN
  IF bin.key # NULL THEN
    IF bin_matches(blks, bin, key, keylen, entry.orig) THEN
      [bins |-> bins, i |-> i, entry |-> entry, dup |-> TRUE]
    ELSE
      LET swap == entry.e.psl > bin.psl
          bins1 == IF swap THEN [bins EXCEPT ![i] = entry.e] ELSE bins
          e1 == IF swap THEN bin ELSE entry.e
          e2 == [e1 EXCEPT !.psl = e1.psl + 1]
      IN insert_probe(bins1, size, blks, key, keylen,
                      [entry EXCEPT !.e = e2], (i + 1) % size)
  ELSE [bins |-> bins, i |-> i, entry |-> entry, dup |-> FALSE]

\* mutant: a bin that holds the key keeps its value
hashmap_insert_no_resize_keeps(map, blks, key, keybytes, keylen, value) ==
  LET hash == get_hash(keybytes, keylen)
      entry == [key |-> key, value |-> value, hash |-> hash, psl |-> 0,
                keylen |-> keylen]
  IN Bind(insert_probe(map.bins, map.size, blks, keybytes, keylen,
                       [e |-> entry, orig |-> hash], hash % map.size),
          LAMBDA r :
            IF r.dup
            THEN [map EXCEPT !.bins = r.bins]
            ELSE [map EXCEPT !.bins = [r.bins EXCEPT ![r.i] = r.entry.e],
                             !.length = map.length + 1])

\* hashmap_insert_no_resize(map, key, keylen, value): key is the pointer
\* stored in the bin, keybytes the bytes it points to
hashmap_insert_no_resize(map, blks, key, keybytes, keylen, value) ==
  LET hash == get_hash(keybytes, keylen)
      entry == [key |-> key, value |-> value, hash |-> hash, psl |-> 0,
                keylen |-> keylen]
  IN Bind(insert_probe(map.bins, map.size, blks, keybytes, keylen,
                       [e |-> entry, orig |-> hash], hash % map.size),
          LAMBDA r :
            IF r.dup
            THEN [map EXCEPT !.bins = [r.bins EXCEPT ![r.i].value = value]]
            ELSE [map EXCEPT !.bins = [r.bins EXCEPT ![r.i] = r.entry.e],
                             !.length = map.length + 1])

\* hashmap_resize(map, size): fresh bins, every live bin re-inserted in index order
RECURSIVE resize_from(_, _, _, _)
resize_from(map, blks, bins_old, i) ==
  IF i >= Len(bins_old) THEN map
  ELSE LET bin == bins_old[i + 1] IN
       IF bin.key = NULL THEN resize_from(map, blks, bins_old, i + 1)
       ELSE resize_from(
              hashmap_insert_no_resize(map, blks, bin.key,
                                       KeyBytes(blks, bin.key), bin.keylen,
                                       bin.value),
              blks, bins_old, i + 1)

\* mutant: the new bins stay empty
hashmap_resize_empties(map, blks, size) ==
  [map EXCEPT !.bins = [i \in 0..(size - 1) |-> EmptyBin],
              !.size = size, !.length = 0]

hashmap_resize(map, blks, size) ==
  LET old == [i \in 1..map.size |-> map.bins[i - 1]]
      fresh == [map EXCEPT !.bins = [i \in 0..(size - 1) |-> EmptyBin],
                           !.size = size, !.length = 0]
  IN resize_from(fresh, blks, old, 0)

\* a table that always doubles
upsize_to_doubles(size) == size * 2

\* the size hashmap_insert resizes a table of size bins to:
\* min(map->size << 1, map->size + HASHMAP_MAX_GROWTH_STEP)
upsize_to(size) == Min(size * 2, size + HASHMAP_MAX_GROWTH_STEP)

\* a hashmap_insert that returns the value when the resize has failed
hashmap_insert_silent(map, blks, key, keybytes, keylen, value, mem) ==
  IF map.length > approx_85_percent(map.size) /\ ~mem
  THEN [map |-> map, ret |-> value]
  ELSE [map |-> hashmap_insert_no_resize(
                  IF map.length > approx_85_percent(map.size)
                  THEN hashmap_resize(map, blks, upsize_to(map.size))
                  ELSE map,
                  blks, key, keybytes, keylen, value),
        ret |-> value]

\* hashmap_insert: [map, ret]; mem: calloc in hashmap_resize has memory.
\* When it has not, hashmap_resize returns -1 with the map as it was and
\* hashmap_insert returns NULL.
hashmap_insert(map, blks, key, keybytes, keylen, value, mem) ==
  LET threshold == approx_85_percent(map.size)
      size == upsize_to(map.size)
  IN IF map.length > threshold /\ ~mem THEN [map |-> map, ret |-> NULL]
     ELSE [map |-> hashmap_insert_no_resize(
                     IF map.length > threshold
                     THEN hashmap_resize(map, blks, size) ELSE map,
                     blks, key, keybytes, keylen, value),
           ret |-> value]

\* the locating loop of hashmap_delete: the bin index, or -1 for "return NULL"
RECURSIVE delete_probe(_, _, _, _, _, _, _)
delete_probe(map, blks, key, keylen, hash, n, i) ==
  LET bin == map.bins[i] IN
  IF bin.key = NULL \/ n > bin.psl THEN -1
  ELSE IF bin_matches(blks, bin, key, keylen, hash) THEN i
  ELSE delete_probe(map, blks, key, keylen, hash, n + 1, (i + 1) % map.size)

\* the number of bins the locating loop of hashmap_delete looks at
RECURSIVE delete_probes(_, _, _, _, _, _, _)
delete_probes(map, blks, key, keylen, hash, n, i) ==
  LET bin == map.bins[i] IN
  IF n > 2 * map.size THEN n + 1
  ELSE IF bin.key = NULL \/ n > bin.psl THEN n + 1
  ELSE IF bin_matches(blks, bin, key, keylen, hash) THEN n + 1
  ELSE delete_probes(map, blks, key, keylen, hash, n + 1, (i + 1) % map.size)

\* the backward shift of hashmap_delete, from the located bin on
RECURSIVE shift_back(_, _, _)

\* mutant: the bin is cleared and the bins after it stay where they are
shift_back_clears(bins, size, i) ==
  [bins EXCEPT ![i].key = NULL, ![i].keylen = 0]

shift_back(bins, size, i) ==
  LET cleared == [bins EXCEPT ![i].key = NULL, ![i].keylen = 0]
      j == (i + 1) % size
      nbin == cleared[j]
  IN IF nbin.key = NULL \/ nbin.psl = 0 THEN cleared
     ELSE LET moved == [nbin EXCEPT !.psl = nbin.psl - 1]
          IN shift_back([cleared EXCEPT ![j] = moved, ![i] = moved], size, j)

\* the end of hashmap_delete, m the map after the removal and threshold
\* approx_40_percent of its size: whether it resizes, and to which size
wants_downsize(m, threshold) == m.length > m.minsize /\ m.length < threshold
downsize_to(m) == Max(m.size \div 2, m.minsize)

\* mutant: the entry is found but stays in the table
hashmap_delete_keeps(map, blks, key, keylen) ==
  [map |-> map, ret |-> hashmap_find(map, blks, key, keylen)]

\* hashmap_delete: [map, ret]
hashmap_delete(map, blks, key, keylen) ==
  LET threshold == approx_40_percent(map.size)
      hash == get_hash(key, keylen)
  IN Bind(delete_probe(map, blks, key, keylen, hash, 0, hash % map.size),
          LAMBDA i :
            IF i = -1 THEN [map |-> map, ret |-> NULL]
            ELSE
              Bind([map EXCEPT !.length = map.length - 1,
                               !.bins = shift_back(map.bins, map.size, i)],
                   LAMBDA m1 :
                     [map |-> IF wants_downsize(m1, threshold)
                              THEN hashmap_resize(m1, blks, downsize_to(m1))
                              ELSE m1,
                      ret |-> map.bins[i].value]))

\* hashmap_init(size): minsize = max(size, 1), resized to minsize
hashmap_init(size) ==
  LET minsize == Max(size, 1) IN
  [size |-> minsize, minsize |-> minsize, length |-> 0,
   bins |-> [i \in 0..(minsize - 1) |-> EmptyBin]]


(* ------------------------------ the heap ------------------------------ *)

\* A cell is "free" (never handed out, or freed and out of every pointer's
\* reach), "live" (allocated) or "dead" (freed while a pointer still refers
\* to it; its last contents are kept).
FreeBlock == [key |-> <<>>, value |-> <<>>, size |-> 0, keylen |-> 0,
              st |-> "free"]
FreeNode == [next |-> NULL, prev |-> NULL, value |-> NULL, st |-> "free"]

\* The machine state the C functions below transform: the program state
\* plus ret (the return value of the last call) and ub (the call has run
\* into undefined behaviour).
Faulted(s) == s.fault # "none"

Crash(s) == [s EXCEPT !.fault = "segv"]

\* undefined behaviour on a dead cell: the call goes on with the cell's last
\* contents and is marked (ub); the action that made the call offers the
\* fault as its other outcome
Undefined(s) == [s EXCEPT !.ub = TRUE]

\* the rest F of a function body runs on the state s a statement leaves,
\* unless the process has stopped in that statement
Then(s, F(_)) == IF Faulted(s) THEN s ELSE F(s)

\* dereference of a node_t pointer / block_t pointer
deref_node(s, n) ==
  IF Faulted(s) THEN s
  ELSE IF n = NULL THEN Crash(s)
  ELSE IF s.nodes[n].st # "live" THEN Undefined(s)
  ELSE s

deref_block(s, b) ==
  IF Faulted(s) THEN s
  ELSE IF b = NULL THEN Crash(s)
  ELSE IF s.blocks[b].st # "live" THEN Undefined(s)
  ELSE s

\* free(node): free(NULL) does nothing; freeing a dead cell is a double free
free_node(s, n) ==
  IF Faulted(s) \/ n = NULL THEN s
  ELSE IF s.nodes[n].st # "live" THEN Undefined(s)
  ELSE [s EXCEPT !.nodes[n].st = "dead"]

\* malloc: the lowest free cell (NULL when the pool is used up)
malloc_node(s) ==
  LET free == { n \in NodeIds : s.nodes[n].st = "free" } IN
  IF free = {} THEN NULL ELSE CHOOSE n \in free : \A m \in free : n <= m

malloc_block(s) ==
  LET free == { b \in BlockIds : s.blocks[b].st = "free" } IN
  IF free = {} THEN NULL ELSE CHOOSE b \in free : \A m \in free : b <= m

(* ------------------------------- list.c ------------------------------- *)

\* list_insert_head(list, node)
list_insert_head(s, node) ==
  IF Faulted(s) THEN s
  ELSE IF s.cache.lru_list.length = 0 THEN
    Then(deref_node(s, node), LAMBDA s1 :
      [s1 EXCEPT !.cache.lru_list.head = node,
                 !.nodes[node].next = node,
                 !.nodes[node].prev = node,
                 !.cache.lru_list.length = 1,
                 !.ret = node])
  ELSE
    LET head_orig == s.cache.lru_list.head IN
    Then(deref_node(deref_node(s, head_orig), node), LAMBDA s1 :
      \* list->head = node;  node->prev = head_orig->prev;
      Bind([s1 EXCEPT !.cache.lru_list.head = node,
                      !.nodes[node].prev = s1.nodes[head_orig].prev],
           LAMBDA s2 :
             LET p == s2.nodes[head_orig].prev IN
             Then(deref_node(s2, p), LAMBDA s3 :
               \* head_orig->prev->next = node;  node->next = head_orig;
               \* head_orig->prev = node;  list->length++;
               Bind([s3 EXCEPT !.nodes[p].next = node], LAMBDA s4 :
                 Bind([s4 EXCEPT !.nodes[node].next = head_orig], LAMBDA s5 :
                   Bind([s5 EXCEPT !.nodes[head_orig].prev = node],
                        LAMBDA s6 :
                          [s6 EXCEPT !.cache.lru_list.length = @ + 1,
                                     !.ret = node]))))))

\* list_insert(list, value): malloc a node, set its value, insert at the head
list_insert(s, value) ==
  IF Faulted(s) THEN s
  ELSE LET node == malloc_node(s) IN
       list_insert_head([s EXCEPT !.nodes[node] =
                           [next |-> NULL, prev |-> NULL, value |-> value,
                            st |-> "live"]],
                        node)

\* list_delete(list, node): unlinks, frees nothing, leaves list->head alone
\* unless the list had one node
list_delete(s, node) ==
  IF Faulted(s) THEN s
  ELSE IF s.cache.lru_list.length = 1 THEN
    [s EXCEPT !.cache.lru_list.head = NULL,
              !.cache.lru_list.length = 0, !.ret = node]
  ELSE
    Then(deref_node(s, node), LAMBDA s1 :
      \* node->prev->next = node->next;
      LET p == s1.nodes[node].prev IN
      Then(deref_node(s1, p), LAMBDA s2 :
        Bind([s2 EXCEPT !.nodes[p].next = s2.nodes[node].next], LAMBDA s3 :
          \* node->next->prev = node->prev;
          LET nx == s3.nodes[node].next IN
          Then(deref_node(s3, nx), LAMBDA s4 :
            [s4 EXCEPT !.nodes[nx].prev = s4.nodes[node].prev,
                       !.cache.lru_list.length = @ - 1,
                       !.ret = node]))))

\* list_move_to_head(list, node)
list_move_to_head(s, node) ==
  IF Faulted(s) THEN s
  ELSE IF node = s.cache.lru_list.head THEN [s EXCEPT !.ret = node]
  ELSE list_insert_head(list_delete(s, node), node)

\* list_find(list, value): walks next pointers from the head until it is
\* back at the head; a walk that revisits a node without meeting the head
\* never ends ("hang")
RECURSIVE list_find_loop(_, _, _, _, _)
list_find_loop(s, value, n, looped, steps) ==
  IF Faulted(s) THEN s
  ELSE IF looped \/ n = NULL THEN [s EXCEPT !.ret = NULL]
  ELSE IF steps > MaxNodes THEN [s EXCEPT !.fault = "hang"]
  ELSE Then(deref_node(s, n), LAMBDA s1 :
         IF s1.nodes[n].value = value THEN [s1 EXCEPT !.ret = n]
         ELSE LET nx == s1.nodes[n].next IN
              list_find_loop(s1, value, nx, nx = s1.cache.lru_list.head,
                             steps + 1))

list_find(s, value) ==
  list_find_loop(s, value, s.cache.lru_list.head, FALSE, 0)

\* list_init: calloc
list_init == [head |-> NULL, length |-> 0]


(* ------------------------------- cache.c ------------------------------ *)

\* cache_init(size)
cache_init(size) ==
  [map |-> hashmap_init(1), lru_list |-> list_init, size |-> 0,
   max_size |-> size]

\* free_block(block): free(block->key); free(block->value); free(block)
free_block(s, b) ==
  IF Faulted(s) THEN s
  ELSE IF s.blocks[b].st # "live" THEN Undefined(s)
  ELSE [s EXCEPT !.blocks[b].st = "dead"]

\* cache_delete(cache, block); ret 0, or -1 when the key is not in the map
cache_delete(s, block) ==
  Then(deref_block(s, block), LAMBDA s1 :
    LET b == s1.blocks[block] IN
    Bind(hashmap_delete(s1.cache.map, s1.blocks, b.key, b.keylen), LAMBDA r :
      IF r.ret = NULL THEN [s1 EXCEPT !.ret = -1]
      ELSE
        Bind(list_find([s1 EXCEPT !.cache.map = r.map,
                                  !.cache.size = @ - b.size], block),
             LAMBDA s3 :
               Then(free_block(free_node(list_delete(s3, s3.ret), s3.ret),
                               block),
                    LAMBDA s6 : [s6 EXCEPT !.ret = 0]))))

\* mutant: no copy is made, the entry keeps the caller's buffers
get_block_aliases(s, key, keylen, value, size) == [s EXCEPT !.ret = s.arg]

\* mutant: the copy of the value loses its last byte
get_block_truncates(s, key, keylen, value, size) ==
  LET block == malloc_block(s) IN
  [s EXCEPT !.blocks[block] =
              [key |-> SubSeq(key, 1, keylen),
               value |-> SubSeq(value, 1, size - 1),
               size |-> size, keylen |-> keylen, st |-> "live"],
            !.ret = block]

\* get_block(key, keylen, value, size): the new block holds copies.  No
\* malloc result is tested: when malloc has no memory (oom = "block") the
\* first store goes through a null pointer.
get_block(s, key, keylen, value, size) ==
  LET block == malloc_block(s) IN
  IF s.oom = "block" THEN [Crash(s) EXCEPT !.oom = "failed"] ELSE
  [s EXCEPT !.blocks[block] =
              [key |-> SubSeq(key, 1, keylen), value |-> SubSeq(value, 1, size),
               size |-> size, keylen |-> keylen, st |-> "live"],
            !.ret = block]

\* the eviction loop of cache_insert:
\*   while (n != NULL && cache->size > cache->max_size)
\*     { n = n->prev; b = n->value; cache_delete(cache, b); }
\* iter counts the iterations since the last successful cache_delete: after
\* more than MaxNodes of them the loop is back at a node it has visited with
\* the cache as it was, and never ends ("hang").
RECURSIVE evict_loop(_, _, _)

\* mutant: nothing is evicted
evict_nothing(s, n, iter) == s

\* mutant: at most one entry is evicted
evict_loop_once(s, n, iter) ==
  IF Faulted(s) \/ ~(n # NULL /\ s.cache.size > s.cache.max_size) THEN s
  ELSE cache_delete(s, s.nodes[s.nodes[n].prev].value)

\* mutant: evicts until the cache is below max_size, not at most max_size
RECURSIVE evict_loop_eager(_, _, _)
evict_loop_eager(s, n, iter) ==
  IF Faulted(s) THEN s
  ELSE IF ~(n # NULL /\ s.cache.lru_list.length > 0
            /\ s.cache.size >= s.cache.max_size) THEN s
  ELSE
    LET n1 == s.nodes[n].prev
        s3 == cache_delete(s, s.nodes[n1].value)
    IN evict_loop_eager(s3, n1, iter + 1)

evict_loop(s, n, iter) ==
  IF Faulted(s) THEN s
  ELSE IF ~(n # NULL /\ s.cache.size > s.cache.max_size) THEN s
  ELSE IF iter > MaxNodes THEN [s EXCEPT !.fault = "hang"]
  ELSE
    Then(deref_node(s, n), LAMBDA s1 :
      LET n1 == s1.nodes[n].prev IN
      Then(deref_node(s1, n1), LAMBDA s2 :
        Bind(cache_delete(s2, s2.nodes[n1].value), LAMBDA s3 :
          evict_loop(s3, n1, IF s3.ret = 0 THEN 0 ELSE iter + 1))))

\* mutant: an insert of a present key replaces the stored value
cache_insert_overwrites(s, key, keylen, value, size) ==
  Bind(hashmap_find(s.cache.map, s.blocks, key, keylen), LAMBDA found :
    IF found # NULL
    THEN [s EXCEPT !.blocks[found].value = SubSeq(value, 1, size),
                   !.blocks[found].size = size, !.ret = 0]
    ELSE IF size > s.cache.max_size THEN [s EXCEPT !.ret = -1]
    ELSE
      Then(get_block(s, key, keylen, value, size), LAMBDA s1 :
        LET block == s1.ret IN
        Bind([s1 EXCEPT !.cache.size = @ + s1.blocks[block].size], LAMBDA s2 :
          Then(evict_loop(s2, s2.cache.lru_list.head, 0), LAMBDA s3 :
            Bind(hashmap_insert(s3.cache.map, s3.blocks, block,
                                s3.blocks[block].key, s3.blocks[block].keylen,
                                block, s3.oom # "table"),
                 LAMBDA r :
                   Then(list_insert(
                          [s3 EXCEPT !.cache.map = r.map,
                                     !.oom = IF r.ret = NULL THEN "failed"
                                             ELSE @],
                          block),
                        LAMBDA s5 : [s5 EXCEPT !.ret = 0]))))))

\* mutant: the size is checked before the key is looked up
cache_insert_size_first(s, key, keylen, value, size) ==
  IF size > s.cache.max_size THEN [s EXCEPT !.ret = -1]
  ELSE IF hashmap_find(s.cache.map, s.blocks, key, keylen) # NULL
  THEN [s EXCEPT !.ret = 0]
  ELSE
    Then(get_block(s, key, keylen, value, size), LAMBDA s1 :
      LET block == s1.ret IN
      Bind([s1 EXCEPT !.cache.size = @ + s1.blocks[block].size], LAMBDA s2 :
        Then(evict_loop(s2, s2.cache.lru_list.head, 0), LAMBDA s3 :
          Bind(hashmap_insert(s3.cache.map, s3.blocks, block,
                              s3.blocks[block].key, s3.blocks[block].keylen,
                              block, s3.oom # "table"),
               LAMBDA r :
                 Then(list_insert(
                        [s3 EXCEPT !.cache.map = r.map,
                                   !.oom = IF r.ret = NULL THEN "failed"
                                           ELSE @],
                        block),
                      LAMBDA s5 : [s5 EXCEPT !.ret = 0])))))

\* cache_insert(cache, key, keylen, value, size)
cache_insert(s, key, keylen, value, size) ==
  IF hashmap_find(s.cache.map, s.blocks, key, keylen) # NULL
  THEN [s EXCEPT !.ret = 0]
  ELSE IF size > s.cache.max_size THEN [s EXCEPT !.ret = -1]
  ELSE
    Then(get_block(s, key, keylen, value, size), LAMBDA s1 :
      LET block == s1.ret IN
      Bind([s1 EXCEPT !.cache.size = @ + s1.blocks[block].size], LAMBDA s2 :
        Then(evict_loop(s2, s2.cache.lru_list.head, 0), LAMBDA s3 :
          Bind(hashmap_insert(s3.cache.map, s3.blocks, block,
                              s3.blocks[block].key, s3.blocks[block].keylen,
                              block, s3.oom # "table"),
               LAMBDA r :
                 Then(list_insert(
                        [s3 EXCEPT !.cache.map = r.map,
                                   !.oom = IF r.ret = NULL THEN "failed"
                                           ELSE @],
                        block),
                      LAMBDA s5 : [s5 EXCEPT !.ret = 0])))))

\* cache_find(cache, key, keylen)
cache_find(s, key, keylen) ==
  Bind(hashmap_find(s.cache.map, s.blocks, key, keylen), LAMBDA block :
    IF block = NULL THEN [s EXCEPT !.ret = NULL]
    ELSE Bind(list_find(s, block), LAMBDA s1 :
           Then(list_move_to_head(s1, s1.ret), LAMBDA s2 :
             [s2 EXCEPT !.ret = block])))


(* ------------------- the reader/writer queue (proxy) ------------------- *)

Workers == 1..NumWorkers
TokIds == 1..(2 * NumWorkers)

\* rw_token_t reader_tok, writer_tok: locals of thread_handle_relay
reader_tok(w) == 2 * w - 1
writer_tok(w) == 2 * w
TokOwner(t) == (t + 1) \div 2

\* the locals of cache_find and the list functions before they are set
NoLocals == [node |-> NULL, head_orig |-> NULL]

\* a token nothing has been written to
FreshTok == [is_reader |-> FALSE, next |-> NULL]

\* rw_queue_init
rw_queue_init ==
  [reading_count |-> 0, writing_count |-> 0, head |-> NULL, tail |-> NULL]

\* The queue functions transform q = [g, toks, live, ub, fault]: the queue,
\* the tokens, the set of tokens whose thread still runs, and whether the
\* call touched the token of a thread that has exited (its stack is gone).
tok_deref(q, t) == IF t \in q.live THEN q ELSE [q EXCEPT !.ub = TRUE]

\* enqueue(q, t)
enqueue(q, t) ==
  LET q1 == IF q.g.tail = NULL
            THEN [q EXCEPT !.g.tail = t, !.g.head = t]
            ELSE [tok_deref(q, q.g.tail) EXCEPT !.toks[q.g.tail].next = t,
                                               !.g.tail = t]
  IN [tok_deref(q1, t) EXCEPT !.toks[t].next = NULL]

\* dequeue(q)
dequeue(q) ==
  LET t == q.g.head IN
  IF t = NULL THEN q
  ELSE LET q1 == [tok_deref(q, t) EXCEPT !.g.head = q.toks[t].next]
       IN IF q1.g.head = NULL THEN [q1 EXCEPT !.g.tail = NULL] ELSE q1

\* a rw_queue_request_read that does not look at the queue's head
rw_queue_request_read_jumps(q, t) ==
  IF q.g.writing_count = 0
  THEN [q EXCEPT !.g.reading_count = @ + 1]
  ELSE enqueue([tok_deref(q, t) EXCEPT !.toks[t].is_reader = TRUE], t)

\* rw_queue_request_read(q, t)
rw_queue_request_read(q, t) ==
  IF q.g.head = NULL /\ q.g.writing_count = 0
  THEN [q EXCEPT !.g.reading_count = @ + 1]
  ELSE enqueue([tok_deref(q, t) EXCEPT !.toks[t].is_reader = TRUE], t)

\* a rw_queue_request_write that does not look at reading_count
rw_queue_request_write_barges(q, t) ==
  IF q.g.head = NULL /\ q.g.writing_count = 0
  THEN [q EXCEPT !.g.writing_count = @ + 1]
  ELSE enqueue([tok_deref(q, t) EXCEPT !.toks[t].is_reader = FALSE], t)

\* rw_queue_request_write(q, t)
rw_queue_request_write(q, t) ==
  IF q.g.head = NULL /\ q.g.writing_count = 0 /\ q.g.reading_count = 0
  THEN [q EXCEPT !.g.writing_count = @ + 1]
  ELSE enqueue([tok_deref(q, t) EXCEPT !.toks[t].is_reader = FALSE], t)

\* the loop of rw_queue_release:
\*   while (want_to_read) { q->reading_count++; dequeue(q); t = q->head;
\*                          want_to_read = t && t->is_reader; }
RECURSIVE release_loop(_, _, _)
\* a loop that stops behind the first reader it admits
release_loop_once(q, want_to_read, steps) ==
  IF ~want_to_read THEN q
  ELSE dequeue([q EXCEPT !.g.reading_count = @ + 1])

release_loop(q, want_to_read, steps) ==
  IF ~want_to_read THEN q
  ELSE IF steps > 2 * NumWorkers THEN [q EXCEPT !.fault = "hang"]
  ELSE LET q1 == dequeue([q EXCEPT !.g.reading_count = @ + 1])
           t == q1.g.head
       IN IF t = NULL THEN q1
          ELSE release_loop(tok_deref(q1, t), q1.toks[t].is_reader, steps + 1)

\* rw_queue_release(q)
rw_queue_release(q) ==
  LET q1 == IF q.g.writing_count > 0
            THEN [q EXCEPT !.g.writing_count = @ - 1]
            ELSE [q EXCEPT !.g.reading_count = @ - 1]
      t == q1.g.head
  IN IF t = NULL THEN q1
     ELSE LET q2 == tok_deref(q1, t)
              want_to_read == q2.toks[t].is_reader
          IN IF ~want_to_read /\ q2.g.reading_count = 0
             THEN dequeue([q2 EXCEPT !.g.writing_count = @ + 1])
             ELSE release_loop(q2, want_to_read, 0)

\* the tokens in the queue, head first (next pointers followed at most once
\* per token)
RECURSIVE queue_from(_, _, _)
queue_from(tk, t, n) ==
  IF t = NULL \/ n = 0 THEN <<>>
  ELSE <<t>> \o queue_from(tk, tk[t].next, n - 1)

Queued(g, tk) == queue_from(tk, g.head, 2 * NumWorkers)

(* ---------------------- machine state and its commit ------------------- *)

\* the program state as the record the C functions above transform
St ==
  [cache |-> cache, blocks |-> blocks, nodes |-> nodes, fault |-> fault,
   uaf |-> uaf, ub |-> FALSE, ret |-> 0, retptr |-> FALSE, roots |-> <<>>,
   oom |-> "none", arg |-> NULL]

\* how a call that ended in machine state s can turn out
Outcomes(s) == IF s.ub /\ ~Faulted(s) THEN {"stale", "segv"} ELSE {"stale"}

NonEmptyBins(map) == { i \in 0..(map.size - 1) : map.bins[i].key # NULL }

InSeq(x, q) == \E j \in 1..Len(q) : q[j] = x

AppendNew(q, x) == IF x = NULL \/ InSeq(x, q) THEN q ELSE Append(q, x)

RECURSIVE AppendAllNew(_, _, _)
AppendAllNew(q, xs, i) ==
  IF i > Len(xs) THEN q ELSE AppendAllNew(AppendNew(q, xs[i]), xs, i + 1)

\* the node cells in the order a walk from the list head meets them
RECURSIVE walk_nodes(_, _, _)
walk_nodes(nds, q, i) ==
  IF i > Len(q) THEN q
  ELSE walk_nodes(nds,
                  AppendNew(AppendNew(q, nds[q[i]].next), nds[q[i]].prev),
                  i + 1)

\* the ids 1..n whose cell is live, in increasing order
RECURSIVE live_from(_, _, _)
live_from(cells, i, n) ==
  IF i > n THEN <<>>
  ELSE (IF cells[i].st = "live" THEN <<i>> ELSE <<>>)
       \o live_from(cells, i + 1, n)

PosIn(q, x) == IF x = NULL THEN NULL ELSE CHOOSE j \in 1..Len(q) : q[j] = x

\* Pointers are only ever compared for equality, so which cell malloc hands
\* out is immaterial.  Canon names the cells in the order the program's
\* pointers reach them (list head first), returns to the pool every dead
\* cell no pointer reaches (it can never be dereferenced again, and
\* allocating it again cannot be told from allocating a fresh cell) and
\* shows the fields of an empty bin, which the code never reads before it
\* overwrites them, as calloc left them.  roots: the block pointers that
\* running threads hold in local variables, in a fixed order.
Canon(s, roots) ==
  LET m == s.cache.map
      head == s.cache.lru_list.head
      nq0 == walk_nodes(s.nodes, AppendNew(<<>>, head), 1)
      nq == walk_nodes(s.nodes,
                       AppendAllNew(nq0, live_from(s.nodes, 1, MaxNodes), 1),
                       1)
      binptrs == [i \in 1..(2 * m.size) |->
                    LET bin == m.bins[(i - 1) \div 2] IN
                    IF bin.key = NULL THEN NULL
                    ELSE IF i % 2 = 1 THEN bin.key ELSE bin.value]
      bq0 == AppendAllNew(<<>>, [i \in 1..Len(nq) |-> s.nodes[nq[i]].value], 1)
      bq1 == AppendAllNew(AppendAllNew(bq0, binptrs, 1), roots, 1)
      bq == AppendAllNew(bq1, live_from(s.blocks, 1, MaxBlocks), 1)
      N(x) == PosIn(nq, x)
      B(x) == PosIn(bq, x)
  IN [s EXCEPT
        !.nodes = [i \in NodeIds |->
                     IF i > Len(nq) THEN FreeNode
                     ELSE LET c == s.nodes[nq[i]] IN
                          [next |-> N(c.next), prev |-> N(c.prev),
                           value |-> B(c.value), st |-> c.st]],
        !.blocks = [i \in BlockIds |->
                      IF i > Len(bq) THEN FreeBlock ELSE s.blocks[bq[i]]],
        !.cache.lru_list.head = N(head),
        !.cache.map.bins =
           [i \in 0..(m.size - 1) |->
              IF m.bins[i].key = NULL THEN EmptyBin
              ELSE [m.bins[i] EXCEPT !.key = B(@), !.value = B(@)]],
        !.ret = IF s.retptr THEN B(s.ret) ELSE s.ret,
        !.roots = [i \in 1..Len(roots) |-> B(roots[i])]]

InMap(c, blks, k) == hashmap_find(c.map, blks, k, Len(k)) # NULL

\* keys of the sequence u that are still in the map
StillIn(u, c, blks) ==
  LET Test(k) == InMap(c, blks, k) IN SelectSeq(u, Test)

Without(u, k) == LET Test(x) == x # k IN SelectSeq(u, Test)

HistOff == [on |-> FALSE, keys |-> <<>>, s |-> 0]

NoCall == [op |-> "init", key |-> <<>>, val |-> <<>>, present |-> FALSE,
           len |-> 0, ret |-> 0, oom |-> FALSE]

\* The values of the cache's variables after a call that ended in machine
\* state s with outcome o.  A faulted process is gone: only fault and uaf
\* remain and its memory is shown as after cache_init.
Final(s, o, roots, call, u, h) ==
  IF Faulted(s) \/ o = "segv" THEN
    [cache |-> cache_init(s.cache.max_size),
     blocks |-> [b \in BlockIds |-> FreeBlock],
     nodes |-> [n \in NodeIds |-> FreeNode],
     fault |-> IF Faulted(s) THEN s.fault ELSE "segv",
     uaf |-> s.uaf + (IF s.ub THEN 1 ELSE 0),
     last |-> [call EXCEPT !.ret = 0, !.oom = (s.oom = "failed")],
     used |-> <<>>,
     hist |-> HistOff,
     roots |-> [i \in 1..Len(roots) |-> NULL]]
  ELSE
    LET g == Canon([s EXCEPT !.retptr = (call.op = "find")], roots) IN
    [cache |-> g.cache, blocks |-> g.blocks, nodes |-> g.nodes,
     fault |-> g.fault, uaf |-> g.uaf + (IF g.ub THEN 1 ELSE 0),
     last |-> [call EXCEPT !.ret = g.ret, !.oom = (s.oom = "failed")],
     used |-> StillIn(u, g.cache, g.blocks),
     hist |-> h,
     roots |-> g.roots]

CommitMem(g) ==
  /\ cache' = g.cache
  /\ blocks' = g.blocks
  /\ nodes' = g.nodes
  /\ fault' = g.fault
  /\ uaf' = g.uaf

Commit(g) ==
  /\ CommitMem(g)
  /\ last' = g.last
  /\ used' = g.used
  /\ hist' = g.hist

(* --------------------- the cache used by one caller -------------------- *)

ValSizes == 1..(MaxCacheSize + 1)

\* the process is alive, and the run is within the bound n on undefined
\* calls
RunningTo(n) == fault = "none" /\ uaf < n

Running == RunningTo(MaxUb)

HasFreeCells ==
  /\ { b \in BlockIds : blocks[b].st = "free" } # {}
  /\ { n \in NodeIds : nodes[n].st = "free" } # {}

\* the blocks the map refers to: what cache_find can hand to a caller
MapBlocks(c) == { c.map.bins[i].value : i \in NonEmptyBins(c.map) }

\* the proxy with no connection accepted
ProxyIdle ==
  /\ g_rw_queue = rw_queue_init
  /\ toks = [t \in TokIds |-> FreshTok]
  /\ pc = [w \in Workers |-> "idle"]
  /\ wkey = [w \in Workers |-> <<>>]
  /\ response = [w \in Workers |-> NULL]
  /\ wbuf = [w \in Workers |-> <<>>]
  /\ locals = [w \in Workers |-> NoLocals]

CacheInit ==
  /\ \E m \in 1..MaxCacheSize : cache = cache_init(m)
  /\ blocks = [b \in BlockIds |-> FreeBlock]
  /\ nodes = [n \in NodeIds |-> FreeNode]
  /\ fault = "none"
  /\ uaf = 0
  /\ last = NoCall
  /\ used = <<>>
  /\ hist = [on |-> TRUE, keys |-> <<>>, s |-> 0]
  /\ ProxyIdle

\* the record of a call: what was called with which key and value, whether
\* the key was in the map and how many entries the map had before the call,
\* and (filled in when the call returns) the value returned and whether an
\* allocation of the call found no memory
Call(op, k, v) ==
  [op |-> op, key |-> k, val |-> v, present |-> InMap(cache, blocks, k),
   len |-> cache.map.length, ret |-> 0, oom |-> FALSE]

\* the history variables after cache_insert(k, ..., size)
InsertUsed(k, size) ==
  IF ~InMap(cache, blocks, k) /\ size <= cache.max_size
  THEN <<k>> \o used ELSE used

InsertHist(k, size) ==
  IF /\ ~InMap(cache, blocks, k) /\ size <= cache.max_size
     /\ hist.on /\ (hist.keys = <<>> \/ hist.s = size)
     /\ ~InSeq(k, hist.keys)
  THEN [on |-> TRUE, keys |-> Append(hist.keys, k), s |-> size]
  ELSE HistOff

\* the history variable after cache_find(k)
FindUsed(k) ==
  IF InMap(cache, blocks, k) THEN <<k>> \o Without(used, k) ELSE used

\* a caller runs cache_insert(cache, k, keylen, value, size), the size
\* drawn from S and the bytes from F, while the allocator is as O says: it
\* has memory ("none"), or none for a block ("block"), or none for a larger
\* hash table ("table")
CacheInsertWith(S, F, n, O) ==
  \E k \in Keys, size \in S, f \in F, m \in O :
    /\ RunningTo(n)
    /\ HasFreeCells
    /\ \E s \in {cache_insert([St EXCEPT !.oom = m], k, Len(k),
                              Fill(f, size), size)} :
         \E o \in Outcomes(s) :
           \E g \in {Final(s, o, <<>>, Call("insert", k, Fill(f, size)),
                           InsertUsed(k, size), InsertHist(k, size))} :
             Commit(g)
    /\ UNCHANGED proxyVars

CacheInsertOf(S, F, n) == CacheInsertWith(S, F, n, {"none"})

\* a caller runs cache_find(cache, k, keylen)
CacheFindTo(n) ==
  \E k \in Keys :
    /\ RunningTo(n)
    /\ \E s \in {cache_find(St, k, Len(k))} :
         \E o \in Outcomes(s) :
           \E g \in {Final(s, o, <<>>, Call("find", k, <<>>), FindUsed(k),
                           HistOff)} :
             Commit(g)
    /\ UNCHANGED proxyVars

\* a caller runs cache_delete(cache, block) on a block cache_find gave it
CacheDeleteTo(n) ==
  \E b \in MapBlocks(cache) :
    /\ RunningTo(n)
    /\ \E s \in {cache_delete(St, b)} :
         \E o \in Outcomes(s) :
           \E g \in {Final(s, o, <<>>, Call("delete", blocks[b].key, <<>>),
                           used, HistOff)} :
             Commit(g)
    /\ UNCHANGED proxyVars

CacheInsert == CacheInsertOf(ValSizes, Fills, MaxUb)

CacheFind == CacheFindTo(MaxUb)

CacheDelete == CacheDeleteTo(MaxUb)

CacheNext == CacheInsert \/ CacheFind \/ CacheDelete

SpecCache == CacheInit /\ [][CacheNext]_vars

(* ------------------- the cache with unit-size entries ------------------ *)

\* cache_init(MaxCacheSize); every value is one byte long, so that the
\* cache holds MaxCacheSize entries and an insert evicts at most one
LruInit ==
  /\ cache = cache_init(MaxCacheSize)
  /\ blocks = [b \in BlockIds |-> FreeBlock]
  /\ nodes = [n \in NodeIds |-> FreeNode]
  /\ fault = "none"
  /\ uaf = 0
  /\ last = NoCall
  /\ used = <<>>
  /\ hist = HistOff
  /\ ProxyIdle

LruInsert == CacheInsertOf({1}, {1}, MaxUbLru)

LruFind == CacheFindTo(MaxUbLru)

LruDelete == CacheDeleteTo(MaxUbLru)

LruNext == LruInsert \/ LruFind \/ LruDelete

SpecLru == LruInit /\ [][LruNext]_vars

(* ------------------ the cache and its callers' buffers ----------------- *)

\* The caller's key and value buffers as a cell of the heap, as in
\* run_test_cache: key = malloc(2), mem2[i] = malloc(10), filled in before
\* the call; arg is the pointer the caller passes.
caller_buffers(s, key, value) ==
  LET c == malloc_block(s) IN
  [s EXCEPT !.blocks[c] = [key |-> key, value |-> value, size |-> Len(value),
                           keylen |-> Len(key), st |-> "live"],
            !.arg = c]

\* after the call the caller overwrites its buffers and frees them:
\* free(key); free(mem2[i])
caller_frees(s) ==
  IF Faulted(s) THEN s
  ELSE [s EXCEPT !.blocks[s.arg] =
                    [@ EXCEPT !.key = [i \in 1..Len(@) |-> 0],
                              !.value = [i \in 1..Len(@) |-> 0],
                              !.st = "dead"],
                 !.arg = NULL]

\* one round of the loop of run_test_cache: the buffers are allocated and
\* filled, cache_insert is called with them, they are freed
CopyInsert ==
  \E k \in Keys, size \in ValSizes, f \in Fills :
    /\ Running
    /\ Cardinality({ b \in BlockIds : blocks[b].st = "free" }) >= 2
    /\ { n \in NodeIds : nodes[n].st = "free" } # {}
    /\ \E s0 \in {caller_buffers(St, k, Fill(f, size))} :
         \E s \in {caller_frees(cache_insert(s0, s0.blocks[s0.arg].key,
                                              Len(k), s0.blocks[s0.arg].value,
                                              size))} :
           \E o \in Outcomes(s) :
             \E g \in {Final(s, o, <<>>, Call("insert", k, Fill(f, size)),
                             InsertUsed(k, size), InsertHist(k, size))} :
               Commit(g)
    /\ UNCHANGED proxyVars

CopyFind == CacheFindTo(MaxUb)

CopyNext == CopyInsert \/ CopyFind

SpecCopy == CacheInit /\ [][CopyNext]_vars

(* ---------------------- the cache short of memory ---------------------- *)

\* the allocator while cache_insert runs
Allocators == {"none", "block", "table"}

OomInsert == CacheInsertWith({1}, {1}, MaxUb, Allocators)

OomFind == CacheFindTo(MaxUb)

OomDelete == CacheDeleteTo(MaxUb)

OomNext == OomInsert \/ OomFind \/ OomDelete

SpecOom == LruInit /\ [][OomNext]_vars

(* ------------------------- the hash map alone -------------------------- *)

\* The caller's key buffers, as run_test_hashmap has them: buffer i holds
\* the two bytes KeyChars[i], 0; the last one holds the single byte
\* KeyChars[1], a prefix of buffer 1.  hashmap_insert stores the pointer, so
\* the buffers are cells of the heap: cell i is buffer i.
MapKeyIds == 1..Min(NumMapKeys, MaxBlocks)

MapKeyBytes(i) ==
  IF i = Min(NumMapKeys, MaxBlocks) THEN <<KeyChars[1]>>
  ELSE <<KeyChars[i], 0>>

KeyBuffer(i) == [key |-> MapKeyBytes(i), value |-> <<>>, size |-> 0,
                 keylen |-> Len(MapKeyBytes(i)), st |-> "live"]

\* the values: pointers the map does not look into
MapVals == 1..NumMapVals
MapVals1 == CHOOSE v \in MapVals : TRUE

\* the record of a hash map call: the call, the reference map's value for
\* the key, length and size of the map before it, and what it returned
MapCall(op, k, v, ret) ==
  [op |-> op, key |-> MapKeyBytes(k), val |-> v, present |-> hist[k] # NULL,
   len |-> cache.map.length, ret |-> ret, oom |-> FALSE,
   size |-> cache.map.size]

\* map = hashmap_init(1)
MapInit ==
  /\ cache = [cache_init(1) EXCEPT !.map = hashmap_init(1)]
  /\ blocks = [b \in BlockIds |->
                 IF b \in MapKeyIds THEN KeyBuffer(b) ELSE FreeBlock]
  /\ nodes = [n \in NodeIds |-> FreeNode]
  /\ fault = "none"
  /\ uaf = 0
  /\ last = [op |-> "init", key |-> <<>>, val |-> NULL, present |-> FALSE,
             len |-> 0, ret |-> NULL, oom |-> FALSE, size |-> 1]
  /\ used = <<>>
  /\ hist = [k \in MapKeyIds |-> NULL]
  /\ ProxyIdle

\* hashmap_insert(map, key, keylen, value)
MapInsert ==
  \E k \in MapKeyIds, v \in MapVals :
    \E r \in {hashmap_insert(cache.map, blocks, k, blocks[k].key,
                             blocks[k].keylen, v, TRUE)} :
      /\ cache' = [cache EXCEPT !.map = r.map]
      /\ hist' = [hist EXCEPT ![k] = v]
      /\ last' = MapCall("hashmap_insert", k, v, r.ret)
      /\ UNCHANGED <<blocks, nodes, fault, uaf, used>>
      /\ UNCHANGED proxyVars

\* hashmap_delete(map, key, keylen)
MapDelete ==
  \E k \in MapKeyIds :
    \E r \in {hashmap_delete(cache.map, blocks, MapKeyBytes(k),
                             Len(MapKeyBytes(k)))} :
      /\ cache' = [cache EXCEPT !.map = r.map]
      /\ hist' = [hist EXCEPT ![k] = NULL]
      /\ last' = MapCall("hashmap_delete", k, NULL, r.ret)
      /\ UNCHANGED <<blocks, nodes, fault, uaf, used>>
      /\ UNCHANGED proxyVars

MapNext == MapInsert \/ MapDelete

SpecMap == MapInit /\ [][MapNext]_vars

(* -------------------- the hash map short of memory --------------------- *)

\* hashmap_insert(map, key, keylen, value) while calloc has memory for a new
\* bin array, or has none
MapOomInsert ==
  \E k \in MapKeyIds, mem \in BOOLEAN :
    \E r \in {hashmap_insert(cache.map, blocks, k, blocks[k].key,
                             blocks[k].keylen, MapVals1, mem)} :
      /\ cache' = [cache EXCEPT !.map = r.map]
      /\ hist' = IF r.ret = NULL THEN hist ELSE [hist EXCEPT ![k] = MapVals1]
      /\ last' = [MapCall("hashmap_insert", k, MapVals1, r.ret)
                    EXCEPT !.oom = ~mem]
      /\ UNCHANGED <<blocks, nodes, fault, uaf, used>>
      /\ UNCHANGED proxyVars

MapOomNext == MapOomInsert \/ MapDelete

SpecMapOom == MapInit /\ [][MapOomNext]_vars

(* ----------------------- the hash map's sizes -------------------------- *)

\* One call of hashmap_insert with a key the table does not hold, or of
\* hashmap_delete with a key it holds, on a table of hashmap_init(1) that
\* has grown to 2^k bins.  Only size, length and minsize are kept here; the
\* bins are the subject of SpecMap.  The lengths are those next to the two
\* thresholds of the size, which inserts and deletes of distinct keys reach.
SizeLengths(size) ==
  {approx_85_percent(size), approx_85_percent(size) + 1,
   approx_40_percent(size), approx_40_percent(size) + 1}

SizeCall(op) ==
  [op |-> op, key |-> <<>>, val |-> NULL, present |-> op = "hashmap_delete",
   len |-> cache.map.length, ret |-> NULL, oom |-> FALSE,
   size |-> cache.map.size]

SizeInit ==
  /\ \E k \in 0..MaxDoublings :
       \E l \in SizeLengths(2 ^ k) :
         /\ cache = [cache_init(1) EXCEPT
                       !.map = [hashmap_init(1) EXCEPT !.size = 2 ^ k,
                                                       !.length = l]]
         /\ last = [op |-> "init", key |-> <<>>, val |-> NULL,
                    present |-> FALSE, len |-> l, ret |-> NULL,
                    oom |-> FALSE, size |-> 2 ^ k]
  /\ blocks = [b \in BlockIds |-> FreeBlock]
  /\ nodes = [n \in NodeIds |-> FreeNode]
  /\ fault = "none"
  /\ uaf = 0
  /\ used = <<>>
  /\ hist = HistOff
  /\ ProxyIdle

\* hashmap_insert of a key that is not in the table
SizeInsert ==
  /\ last.op = "init"
  /\ cache' = [cache EXCEPT
                 !.map.size =
                   IF cache.map.length > approx_85_percent(cache.map.size)
                   THEN upsize_to(@) ELSE @,
                 !.map.length = @ + 1]
  /\ last' = SizeCall("hashmap_insert")
  /\ UNCHANGED <<blocks, nodes, fault, uaf, used, hist>>
  /\ UNCHANGED proxyVars

\* hashmap_delete of a key that is in the table
SizeDelete ==
  /\ last.op = "init"
  /\ cache.map.length >= 1
  /\ \E m1 \in {[cache.map EXCEPT !.length = @ - 1]} :
       cache' = [cache EXCEPT
                   !.map = IF wants_downsize(
                                m1, approx_40_percent(cache.map.size))
                           THEN [m1 EXCEPT !.size = downsize_to(m1)]
                           ELSE m1]
  /\ last' = SizeCall("hashmap_delete")
  /\ UNCHANGED <<blocks, nodes, fault, uaf, used, hist>>
  /\ UNCHANGED proxyVars

SizeNext == SizeInsert \/ SizeDelete

SpecSize == SizeInit /\ [][SizeNext]_vars

(* --------------------------- the list alone ---------------------------- *)

\* the values: pointers the list does not look into
ListVals == 1..NumListVals

\* list = list_init()
ListInit ==
  /\ cache = cache_init(1)
  /\ blocks = [b \in BlockIds |-> FreeBlock]
  /\ nodes = [n \in NodeIds |-> FreeNode]
  /\ fault = "none"
  /\ uaf = 0
  /\ last = [op |-> "init", val |-> NULL, ret |-> NULL, len |-> 0]
  /\ used = <<>>
  /\ hist = HistOff
  /\ ProxyIdle

\* a list call ended in machine state s (no call of this specification
\* touches a freed node: list_delete frees nothing, and neither does the
\* caller)
ListStep(s, op, v, u) ==
  /\ cache' = s.cache
  /\ nodes' = s.nodes
  /\ last' = [op |-> op, val |-> v, ret |-> s.ret,
              len |-> cache.lru_list.length]
  /\ used' = u
  /\ UNCHANGED <<blocks, fault, uaf, hist>>
  /\ UNCHANGED proxyVars

\* list_insert(list, value)
ListInsert ==
  \E v \in ListVals :
    /\ malloc_node(St) # NULL
    /\ \E s \in {list_insert(St, v)} :
         ListStep(s, "list_insert", v, <<s.ret>> \o used)

\* list_delete(list, node), node one of the nodes in the list
ListDelete ==
  \E i \in 1..Len(used) :
    \E s \in {list_delete(St, used[i])} :
      ListStep(s, "list_delete", NULL, Without(used, used[i]))

ListNext == ListInsert \/ ListDelete

SpecList == ListInit /\ [][ListNext]_vars

(* --------------------- the proxy's worker threads ---------------------- *)

\* the uris the clients request
UrisTo(n) == { <<KeyChars[i], 0>> : i \in 1..n }
Uris == UrisTo(NumUris)

\* The origin servers: the response to a uri is a function of the uri.
\* MAX_OBJECT_SIZE is below MAX_CACHE_SIZE, so every response a worker
\* caches fits the cache: responses are 1 .. MaxCacheSize bytes long.
Upstream(k) == Fill(k[1], 1 + (k[1] % MaxCacheSize))

LiveToks == { t \in TokIds : pc[TokOwner(t)] \notin {"idle", "done"} }

\* the queue as the record the queue functions transform
Q == [g |-> g_rw_queue, toks |-> toks, live |-> LiveToks, ub |-> FALSE,
      fault |-> "none"]

QOutcomes(q) ==
  IF q.ub /\ q.fault = "none" THEN {"stale", "segv"} ELSE {"stale"}

\* main: g_cache = cache_init(MAX_CACHE_SIZE); rw_queue_init(&g_rw_queue);
\* one thread per accepted connection
ProxyInit ==
  /\ cache = cache_init(MaxCacheSize)
  /\ blocks = [b \in BlockIds |-> FreeBlock]
  /\ nodes = [n \in NodeIds |-> FreeNode]
  /\ fault = "none"
  /\ uaf = 0
  /\ last = NoCall
  /\ used = <<>>
  /\ hist = HistOff
  /\ g_rw_queue = rw_queue_init
  /\ toks = [t \in TokIds |-> FreshTok]
  /\ pc = [w \in Workers |-> "start"]
  /\ wkey = [w \in Workers |-> <<>>]
  /\ response = [w \in Workers |-> NULL]
  /\ wbuf = [w \in Workers |-> <<>>]
  /\ locals = [w \in Workers |-> NoLocals]

\* the process has stopped (segmentation fault, or a loop that never ends)
ProcessDies(f, n) ==
  /\ cache' = cache_init(cache.max_size)
  /\ blocks' = [b \in BlockIds |-> FreeBlock]
  /\ nodes' = [x \in NodeIds |-> FreeNode]
  /\ fault' = f
  /\ uaf' = n
  /\ g_rw_queue' = rw_queue_init
  /\ toks' = [t \in TokIds |-> FreshTok]
  /\ pc' = [w \in Workers |-> "done"]
  /\ wkey' = [w \in Workers |-> <<>>]
  /\ response' = [w \in Workers |-> NULL]
  /\ wbuf' = [w \in Workers |-> <<>>]
  /\ locals' = [w \in Workers |-> NoLocals]
  /\ UNCHANGED <<last, used, hist>>

QDies(q, o) == q.fault # "none" \/ o = "segv"
QFault(q) == IF q.fault # "none" THEN q.fault ELSE "segv"
QUaf(q) == uaf + (IF q.ub THEN 1 ELSE 0)

\* a queue call by worker w ended in q; w goes on at nextpc
QueueStep(q, w, nextpc) ==
  /\ g_rw_queue' = q.g
  /\ toks' = q.toks
  /\ pc' = [pc EXCEPT ![w] = nextpc]
  /\ uaf' = QUaf(q)
  /\ UNCHANGED <<cache, blocks, nodes, fault, last, used, hist, locals>>

\* a cache call by worker w ended with the values g; w goes on at nextpc
\* and the workers hold the block pointers g.roots
CacheStep(g, w, nextpc) ==
  /\ CommitMem(g)
  /\ pc' = [pc EXCEPT ![w] = nextpc]
  /\ response' = g.roots
  /\ UNCHANGED <<last, used, hist, g_rw_queue, toks, locals>>

\* thread_handle_relay from its start into get_cached_response: the request
\* is read and rw_queue_request_read returns
RequestReadOf(w, U) ==
  /\ Running
  /\ pc[w] = "start"
  /\ \E k \in U :
       \E q \in {rw_queue_request_read(Q, reader_tok(w))} :
         \E o \in QOutcomes(q) :
           IF QDies(q, o) THEN ProcessDies(QFault(q), QUaf(q))
           ELSE /\ QueueStep(q, w, "in_find")
                /\ wkey' = [wkey EXCEPT ![w] = k]
                /\ UNCHANGED <<response, wbuf>>

RequestRead(w) == RequestReadOf(w, Uris)

\* get_cached_response returns: cache_find(g_cache, request->uri,
\* strlen(request->uri) + 1); on a hit the worker goes into rio_writen
FindReturn(w) ==
  /\ Running
  /\ pc[w] = "in_find"
  /\ \E s \in {cache_find(St, wkey[w], Len(wkey[w]))} :
       \E o \in Outcomes(s) :
         \E g \in {Final(s, o, [response EXCEPT ![w] = s.ret],
                         Call("find", wkey[w], <<>>), used, hist)} :
           IF g.fault # "none" THEN ProcessDies(g.fault, g.uaf)
           ELSE /\ CacheStep(g, w, IF g.roots[w] # NULL THEN "write_client"
                                   ELSE "release_miss")
                /\ UNCHANGED <<wkey, wbuf>>

\* rio_writen(client_fd, response->value, response->size) returns
WriteClient(w) ==
  /\ Running
  /\ pc[w] = "write_client"
  /\ \E s \in {deref_block(St, response[w])} :
       \E o \in Outcomes(s) :
         IF Faulted(s) \/ o = "segv"
         THEN ProcessDies("segv", uaf + (IF s.ub THEN 1 ELSE 0))
         ELSE /\ pc' = [pc EXCEPT ![w] = "release_hit"]
              /\ uaf' = uaf + (IF s.ub THEN 1 ELSE 0)
              /\ response' = [response EXCEPT ![w] = NULL]
              /\ UNCHANGED <<cache, blocks, nodes, fault, last, used, hist,
                             g_rw_queue, toks, wkey, wbuf, locals>>

\* rw_queue_release(&g_rw_queue) by worker w, which goes on at nextpc
Release(w, nextpc) ==
  \E q \in {rw_queue_release(Q)} :
    \E o \in QOutcomes(q) :
      IF QDies(q, o) THEN ProcessDies(QFault(q), QUaf(q))
      ELSE /\ QueueStep(q, w, nextpc)
           /\ wkey' = IF nextpc = "done" THEN [wkey EXCEPT ![w] = <<>>]
                      ELSE wkey
           /\ wbuf' = IF nextpc = "done" THEN [wbuf EXCEPT ![w] = <<>>]
                      ELSE wbuf
           /\ UNCHANGED response

\* the release after a hit; the thread exits
ReleaseHit(w) ==
  /\ Running
  /\ pc[w] = "release_hit"
  /\ Release(w, "done")

\* a miss path that goes on without its rw_queue_release
ReleaseMissSkipped(w) ==
  /\ Running
  /\ pc[w] = "release_miss"
  /\ pc' = [pc EXCEPT ![w] = "relay"]
  /\ UNCHANGED <<cache, blocks, nodes, fault, uaf, last, used, hist,
                 g_rw_queue, toks, wkey, response, wbuf, locals>>

\* the release after a miss
ReleaseMiss(w) ==
  /\ Running
  /\ pc[w] = "release_miss"
  /\ Release(w, "relay")

\* the request goes upstream, the response is relayed into buf_accum
\* (cache_buf stays true), and rw_queue_request_write returns
RequestWrite(w) ==
  /\ Running
  /\ pc[w] = "relay"
  /\ \E q \in {rw_queue_request_write(Q, writer_tok(w))} :
       \E o \in QOutcomes(q) :
         IF QDies(q, o) THEN ProcessDies(QFault(q), QUaf(q))
         ELSE /\ QueueStep(q, w, "in_insert")
              /\ wbuf' = [wbuf EXCEPT ![w] = Upstream(wkey[w])]
              /\ UNCHANGED <<wkey, response>>

\* cache_insert(g_cache, request.uri, strlen(request.uri) + 1, buf_accum,
\* offset) returns
InsertReturn(w) ==
  /\ Running
  /\ pc[w] = "in_insert"
  /\ HasFreeCells
  /\ \E s \in {cache_insert(St, wkey[w], Len(wkey[w]), wbuf[w],
                            Len(wbuf[w]))} :
       \E o \in Outcomes(s) :
         \E g \in {Final(s, o, response,
                         Call("insert", wkey[w], wbuf[w]), used, hist)} :
           IF g.fault # "none" THEN ProcessDies(g.fault, g.uaf)
           ELSE /\ CacheStep(g, w, "release_write")
                /\ UNCHANGED <<wkey, wbuf>>

\* the release after the insert; the thread exits
ReleaseWrite(w) ==
  /\ Running
  /\ pc[w] = "release_write"
  /\ Release(w, "done")

ProxyNext ==
  \E w \in Workers :
    \/ RequestRead(w)
    \/ FindReturn(w)
    \/ WriteClient(w)
    \/ ReleaseHit(w)
    \/ ReleaseMiss(w)
    \/ RequestWrite(w)
    \/ InsertReturn(w)
    \/ ReleaseWrite(w)

SpecProxy == ProxyInit /\ [][ProxyNext]_vars

(* ------------- the proxy with thread stacks that are reused ------------ *)

\* main's accept loop creates a thread for every connection; a detached
\* thread that has returned gives its stack back, and pthread_create may
\* hand the same stack to the next thread: its reader_tok and writer_tok
\* then have the addresses, and the bytes, the exited thread left.
Respawn(w) ==
  /\ Running
  /\ pc[w] = "done"
  /\ w <= NumReused
  /\ g_rw_queue.reading_count \in (-MaxCount)..MaxCount
  /\ g_rw_queue.writing_count \in (-MaxCount)..MaxCount
  /\ pc' = [pc EXCEPT ![w] = "start"]
  /\ UNCHANGED <<cache, blocks, nodes, fault, uaf, last, used, hist,
                 g_rw_queue, toks, wkey, response, wbuf, locals>>

ReuseRequestRead(w) == RequestReadOf(w, UrisTo(NumReuseUris))

ReuseNext ==
  \E w \in Workers :
    \/ ReuseRequestRead(w)
    \/ FindReturn(w)
    \/ WriteClient(w)
    \/ ReleaseHit(w)
    \/ ReleaseMiss(w)
    \/ RequestWrite(w)
    \/ InsertReturn(w)
    \/ ReleaseWrite(w)
    \/ Respawn(w)

SpecReuse == ProxyInit /\ [][ReuseNext]_vars

(* ------------- the proxy's readers inside cache_find ------------------- *)

\* The statements of list_move_to_head, list_delete and list_insert_head
\* are the steps of a worker: cache_find runs under reader admission only,
\* and neither cache.c nor list.c takes a lock.  The cache holds
\* NumRaceKeys one-byte entries that earlier connections have inserted.
Racers == 1..NumRacers

RECURSIVE race_fill(_, _)
race_fill(s, i) ==
  IF i > NumRaceKeys THEN s
  ELSE race_fill(cache_insert(s, <<KeyChars[i], 0>>, 2, Fill(1, 1), 1), i + 1)

RaceCache ==
  race_fill([cache |-> cache_init(NumRaceKeys),
             blocks |-> [b \in BlockIds |-> FreeBlock],
             nodes |-> [n \in NodeIds |-> FreeNode],
             fault |-> "none", uaf |-> 0, ub |-> FALSE, ret |-> 0,
             retptr |-> FALSE, roots |-> <<>>, oom |-> "none",
             arg |-> NULL],
            1)

RaceInit ==
  /\ cache = RaceCache.cache
  /\ blocks = RaceCache.blocks
  /\ nodes = RaceCache.nodes
  /\ fault = "none"
  /\ uaf = 0
  /\ last = NoCall
  /\ used = <<>>
  /\ hist = HistOff
  /\ g_rw_queue = rw_queue_init
  /\ toks = [t \in TokIds |-> FreshTok]
  /\ pc = [w \in Workers |-> IF w \in Racers THEN "start" ELSE "done"]
  /\ wkey = [w \in Workers |-> <<>>]
  /\ response = [w \in Workers |-> NULL]
  /\ wbuf = [w \in Workers |-> <<>>]
  /\ locals = [w \in Workers |-> NoLocals]

RaceRequestRead(w) == RequestReadOf(w, UrisTo(NumRaceKeys))

\* a statement of worker w has run: the list is l, the nodes are nds, its
\* locals are loc, and it goes on at nextpc
RaceStep(w, l, nds, loc, nextpc) ==
  /\ cache' = [cache EXCEPT !.lru_list = l]
  /\ nodes' = nds
  /\ locals' = [locals EXCEPT ![w] = loc]
  /\ pc' = [pc EXCEPT ![w] = nextpc]
  /\ UNCHANGED <<blocks, fault, uaf, last, used, hist, g_rw_queue, toks,
                 wkey, wbuf>>

\* cache_find: block = hashmap_find(...); node = list_find(lru_list, block)
RaceLookup(w) ==
  /\ Running
  /\ pc[w] = "in_find"
  /\ \E block \in {hashmap_find(cache.map, blocks, wkey[w], Len(wkey[w]))} :
       /\ block # NULL
       /\ \E s \in {list_find(St, block)} :
            IF Faulted(s) THEN ProcessDies(s.fault, uaf)
            ELSE /\ RaceStep(w, cache.lru_list, nodes,
                             [locals[w] EXCEPT !.node = s.ret], "move")
                 /\ response' = [response EXCEPT ![w] = block]

\* list_move_to_head: if (node == list->head) return node; and cache_find
\* returns the block
RaceMoveTest(w) ==
  /\ Running
  /\ pc[w] = "move"
  /\ RaceStep(w, cache.lru_list, nodes, locals[w],
              IF locals[w].node = cache.lru_list.head THEN "write_client"
              ELSE "delete")
  /\ UNCHANGED response

\* the statements of list_delete(list, node).  list->length is a size_t:
\* -1 stands for the value that 0 - 1 wraps to.
RaceListDelete(w) ==
  LET l == cache.lru_list
      n == locals[w].node
  IN
  /\ Running
  /\ pc[w] \in {"delete", "delete_prev", "delete_next", "delete_length"}
  /\ UNCHANGED response
  /\ CASE pc[w] = "delete" ->
            \* if (list->length == 1) list->head = NULL;
            IF l.length = 1
            THEN RaceStep(w, [l EXCEPT !.head = NULL], nodes, locals[w],
                          "delete_length")
            ELSE RaceStep(w, l, nodes, locals[w], "delete_prev")
       [] pc[w] = "delete_prev" ->
            \* node->prev->next = node->next;
            IF n = NULL \/ nodes[n].prev = NULL THEN ProcessDies("segv", uaf)
            ELSE RaceStep(w, l,
                          [nodes EXCEPT ![nodes[n].prev].next = nodes[n].next],
                          locals[w], "delete_next")
       [] pc[w] = "delete_next" ->
            \* node->next->prev = node->prev;
            IF nodes[n].next = NULL THEN ProcessDies("segv", uaf)
            ELSE RaceStep(w, l,
                          [nodes EXCEPT ![nodes[n].next].prev = nodes[n].prev],
                          locals[w], "delete_length")
       [] pc[w] = "delete_length" ->
            \* list->length--;
            RaceStep(w, [l EXCEPT !.length = IF @ = 0 THEN -1 ELSE @ - 1],
                     nodes, locals[w], "insert")

\* the statements of list_insert_head(list, node); when it returns,
\* list_move_to_head and cache_find return
RaceInsertHead(w) ==
  LET l == cache.lru_list
      n == locals[w].node
      h == locals[w].head_orig
  IN
  /\ Running
  /\ pc[w] \in {"insert", "insert_self", "insert_orig", "insert_head",
               "insert_prev", "insert_tail", "insert_next", "insert_back",
               "insert_length"}
  /\ UNCHANGED response
  /\ CASE pc[w] = "insert" ->
            \* if (list->length == 0) list->head = node;
            IF l.length = 0
            THEN RaceStep(w, [l EXCEPT !.head = n], nodes, locals[w],
                          "insert_self")
            ELSE RaceStep(w, l, nodes, locals[w], "insert_orig")
       [] pc[w] = "insert_self" ->
            \* node->next = node->prev = node;
            IF n = NULL THEN ProcessDies("segv", uaf)
            ELSE RaceStep(w, l,
                          [nodes EXCEPT ![n].next = n, ![n].prev = n],
                          locals[w], "insert_length")
       [] pc[w] = "insert_orig" ->
            \* node_t *head_orig = list->head;
            RaceStep(w, l, nodes, [locals[w] EXCEPT !.head_orig = l.head],
                     "insert_head")
       [] pc[w] = "insert_head" ->
            \* list->head = node;
            RaceStep(w, [l EXCEPT !.head = n], nodes, locals[w],
                     "insert_prev")
       [] pc[w] = "insert_prev" ->
            \* node->prev = head_orig->prev;
            IF n = NULL \/ h = NULL THEN ProcessDies("segv", uaf)
            ELSE RaceStep(w, l, [nodes EXCEPT ![n].prev = nodes[h].prev],
                          locals[w], "insert_tail")
       [] pc[w] = "insert_tail" ->
            \* head_orig->prev->next = node;
            IF nodes[h].prev = NULL THEN ProcessDies("segv", uaf)
            ELSE RaceStep(w, l, [nodes EXCEPT ![nodes[h].prev].next = n],
                          locals[w], "insert_next")
       [] pc[w] = "insert_next" ->
            \* node->next = head_orig;
            RaceStep(w, l, [nodes EXCEPT ![n].next = h], locals[w],
                     "insert_back")
       [] pc[w] = "insert_back" ->
            \* head_orig->prev = node;
            RaceStep(w, l, [nodes EXCEPT ![h].prev = n], locals[w],
                     "insert_length")
       [] pc[w] = "insert_length" ->
            \* list->length++;
            RaceStep(w,
                     [l EXCEPT !.length = IF @ = -1 THEN 0 ELSE @ + 1],
                     nodes, NoLocals, "write_client")

RaceNext ==
  \E w \in Workers :
    \/ RaceRequestRead(w)
    \/ RaceLookup(w)
    \/ RaceMoveTest(w)
    \/ RaceListDelete(w)
    \/ RaceInsertHead(w)
    \/ WriteClient(w)
    \/ ReleaseHit(w)

SpecRace == RaceInit /\ [][RaceNext]_vars

(* -------------------- the relay of a response ------------------------- *)

\* One worker has missed the cache and relays the origin server's response:
\* the loop of thread_handle_relay that reads into buf_accum, with its
\* locals [offset, cache_buf, buf_accum] (0 is a byte never written), and
\* the cache_insert that follows.  last holds the two sockets: the bytes
\* the server has still to send (rest) and the bytes the client has got
\* (sent).
RelayResponses ==
  UNION { [1..n -> Fills] : n \in 0..(RelayObjectSize + 1) }

RelayInit ==
  /\ cache = cache_init(2 * RelayObjectSize)
  /\ blocks = [b \in BlockIds |-> FreeBlock]
  /\ nodes = [n \in NodeIds |-> FreeNode]
  /\ fault = "none"
  /\ uaf = 0
  /\ \E r \in RelayResponses :
       last = [op |-> "relay", response |-> r, rest |-> r, sent |-> <<>>]
  /\ used = <<>>
  /\ hist = HistOff
  /\ g_rw_queue = rw_queue_init
  /\ toks = [t \in TokIds |-> FreshTok]
  /\ pc = [w \in Workers |-> IF w = 1 THEN "relay" ELSE "done"]
  /\ wkey = [w \in Workers |-> IF w = 1 THEN <<KeyChars[1], 0>> ELSE <<>>]
  /\ response = [w \in Workers |-> NULL]
  /\ wbuf = [w \in Workers |-> <<>>]
  /\ locals = [w \in Workers |->
                 [offset |-> 0, cache_buf |-> TRUE,
                  buf_accum |-> [i \in 1..RelayObjectSize |-> 0]]]

\* rio_readnb(rio, buf, n): n bytes, or all that is left before the end of
\* the stream
rio_readnb(rest, n) == Min(n, Len(rest))

\* bytes written to buf at buf[offset] (C index)
Stored(buf, offset, bytes) ==
  [i \in 1..Len(buf) |->
     IF i > offset /\ i <= offset + Len(bytes) THEN bytes[i - offset]
     ELSE buf[i]]

\* the relay goes on: pc, locals of worker w and the sockets change
RelayStep(w, nextpc, loc, socks) ==
  /\ pc' = [pc EXCEPT ![w] = nextpc]
  /\ locals' = [locals EXCEPT ![w] = loc]
  /\ last' = socks
  /\ UNCHANGED <<cache, blocks, nodes, fault, uaf, used, hist, g_rw_queue,
                 toks, wkey, response, wbuf>>

\* an iteration of the loop: rio_readnb returns rsize > 0, rio_writen
\* relays the chunk, offset and cache_buf are updated
RelayChunk(w) ==
  LET l == locals[w]
      rsize == rio_readnb(last.rest, RelayObjectSize - l.offset)
      chunk == SubSeq(last.rest, 1, rsize)
  IN
  /\ Running
  /\ pc[w] = "relay"
  /\ rsize > 0
  /\ RelayStep(w, "relay",
               [offset |-> (l.offset + rsize) % (RelayObjectSize - 1),
                cache_buf |-> IF l.offset + rsize >= RelayObjectSize
                              THEN FALSE ELSE l.cache_buf,
                buf_accum |-> Stored(l.buf_accum, l.offset, chunk)],
               [last EXCEPT !.rest = SubSeq(@, rsize + 1, Len(@)),
                            !.sent = @ \o chunk])

\* rio_writen to the client fails: break
RelayClientGone(w) ==
  LET l == locals[w]
      rsize == rio_readnb(last.rest, RelayObjectSize - l.offset)
      chunk == SubSeq(last.rest, 1, rsize)
  IN
  /\ Running
  /\ pc[w] = "relay"
  /\ rsize > 0
  /\ RelayStep(w, "cache",
               [l EXCEPT !.buf_accum = Stored(l.buf_accum, l.offset, chunk)],
               [last EXCEPT !.rest = SubSeq(@, rsize + 1, Len(@))])

\* rio_readnb returns 0: the loop ends
RelayEof(w) ==
  /\ Running
  /\ pc[w] = "relay"
  /\ rio_readnb(last.rest, RelayObjectSize - locals[w].offset) = 0
  /\ RelayStep(w, "cache", locals[w], last)

\* if (cache_buf) { rw_queue_request_write(...); cache_insert(g_cache,
\* request.uri, strlen(request.uri) + 1, buf_accum, offset); ... }
RelayCache(w) ==
  /\ Running
  /\ pc[w] = "cache"
  /\ IF locals[w].cache_buf
     THEN \E q \in {rw_queue_request_write(Q, writer_tok(w))} :
            /\ QueueStep(q, w, "in_insert")
            /\ wbuf' = [wbuf EXCEPT
                          ![w] = SubSeq(locals[w].buf_accum, 1,
                                        locals[w].offset)]
            /\ UNCHANGED <<wkey, response>>
     ELSE /\ pc' = [pc EXCEPT ![w] = "done"]
          /\ UNCHANGED <<cache, blocks, nodes, fault, uaf, last, used, hist,
                         g_rw_queue, toks, wkey, response, wbuf, locals>>

RelayNext ==
  \E w \in Workers :
    \/ RelayChunk(w)
    \/ RelayClientGone(w)
    \/ RelayEof(w)
    \/ RelayCache(w)
    \/ InsertReturn(w)
    \/ ReleaseWrite(w)

SpecRelay == RelayInit /\ [][RelayNext]_vars

(* ------------------------ the proxy's sections ------------------------- *)

\* worker w is executing cache_insert inside its write section
InWrite(w) == pc[w] = "in_insert"

\* worker w is inside its read section, executing cache_find or reading the
\* value of the block it found
InRead(w) == pc[w] \in {"in_find", "write_client"}

\* the token of the section worker w is in is still in the queue
TokenQueued(w) ==
  \/ InRead(w) /\ pc[w] = "in_find"
     /\ InSeq(reader_tok(w), Queued(g_rw_queue, toks))
  \/ InWrite(w) /\ InSeq(writer_tok(w), Queued(g_rw_queue, toks))

\* C1: no worker executes cache_insert in its write section while another
\* worker is in a read section or in another write section; only read
\* sections overlap.
WritersExclude ==
  \A w1 \in Workers : \A w2 \in Workers \ {w1} :
    InWrite(w1) => ~(InRead(w2) \/ InWrite(w2))

\* C2: the block cache_find returned to a worker is not freed while that
\* worker is still reading its value, whatever the other workers insert.
ReadBlockNotFreed ==
  \A w \in Workers :
    pc[w] = "write_client" => blocks[response[w]].st = "live"

\* C3: a worker whose token is in the queue does not execute its cache
\* operation, and a worker executing cache_insert holds the admitted write
\* token (the queue counts a writer).
QueuedWorkersWait ==
  \A w \in Workers :
    /\ ~TokenQueued(w)
    /\ InWrite(w) => g_rw_queue.writing_count > 0

(* --------------------------- the cache's state ------------------------- *)

\* the keys of the recency list, from the head along next, length entries
RECURSIVE list_keys(_, _, _, _)
list_keys(nds, blks, n, len) ==
  IF len <= 0 \/ n = NULL THEN <<>>
  ELSE <<KeyBytes(blks, nds[n].value)>>
       \o list_keys(nds, blks, nds[n].next, len - 1)

LruKeys == list_keys(nodes, blocks, cache.lru_list.head, cache.lru_list.length)

\* the blocks cache_find can return: one per findable key
Findable ==
  { hashmap_find(cache.map, blocks, k, Len(k)) : k \in Keys } \ {NULL}

RECURSIVE SumSizes(_, _)
SumSizes(blks, B) ==
  IF B = {} THEN 0
  ELSE LET b == CHOOSE x \in B : TRUE
       IN blks[b].size + SumSizes(blks, B \ {b})

\* what cache_find(k) would return in the current state
FindNow(k) == cache_find(St, k, Len(k))

\* the memory of the cache is as it was before the step
CacheUnchanged ==
  /\ cache' = cache
  /\ blocks' = blocks
  /\ nodes' = nodes
  /\ fault' = fault
  /\ uaf' = uaf
  /\ used' = used

IsPrefix(p, q) == Len(p) <= Len(q) /\ p = SubSeq(q, 1, Len(p))

Reverse(q) == [i \in 1..Len(q) |-> q[Len(q) + 1 - i]]

\* C4: after every completed call cache->size is at most cache->max_size
\* (size_t: a negative number here is a wrapped, huge one).
SizeWithinMax ==
  fault = "none" => cache.size >= 0 /\ cache.size <= cache.max_size

\* an insert has just evicted: the run so far inserted more keys than live
SizeWithinMaxWitness ==
  /\ fault = "none"
  /\ hist.on
  /\ Len(hist.keys) > cache.map.length
  /\ cache.size = cache.max_size

\* C5: cache->size is the sum of block->size over the findable entries.
SizeIsSumOfFindable ==
  fault = "none" => cache.size = SumSizes(blocks, Findable)

\* a delete has been carried out and other entries remain
SizeIsSumWitness ==
  /\ fault = "none"
  /\ last.op = "delete"
  /\ last.ret = 0
  /\ cache.size > 0

\* C6: after cache_insert(k, v) of an absent key with size <= max_size,
\* cache_find(k) returns a block with value v and the inserted size; after
\* cache_delete of a block, cache_find of its key returns NULL.
RoundTrip ==
  /\ (/\ fault = "none"
      /\ last.op = "insert"
      /\ ~last.present
      /\ Len(last.val) <= cache.max_size)
     => LET r == FindNow(last.key) IN
        /\ ~Faulted(r)
        /\ r.ret # NULL
        /\ r.blocks[r.ret].value = last.val
        /\ r.blocks[r.ret].size = Len(last.val)
  /\ (fault = "none" /\ last.op = "delete" /\ last.ret = 0)
     => LET r == FindNow(last.key) IN ~Faulted(r) /\ r.ret = NULL

\* the key inserted before has been deleted again
RoundTripWitness ==
  /\ fault = "none"
  /\ last.op = "delete"
  /\ last.ret = 0
  /\ uaf = 0
  /\ FindNow(last.key).ret = NULL

\* the step is a cache_insert call of a key that was in the map
InsertOfPresent == last'.op = "insert" /\ last'.present

\* the step is a cache_insert call with size > max_size
InsertOfOversize == last'.op = "insert" /\ Len(last'.val) > cache.max_size

\* C7: cache_insert of a key already present returns 0 and changes nothing:
\* not the value stored for the key, not cache->size, not the recency order.
FirstWriterWins ==
  [][InsertOfPresent => last'.ret = 0 /\ CacheUnchanged]_vars

\* a present key has been inserted again with another value
FirstWriterWinsWitness ==
  /\ fault = "none"
  /\ last.op = "insert"
  /\ last.present
  /\ last.ret = 0
  /\ LET r == FindNow(last.key) IN
     r.ret # NULL /\ r.blocks[r.ret].value # last.val

\* C8 as stated: cache_insert with size > max_size returns -1 and leaves
\* the cache unchanged, whether or not the key is present.
OversizeRejected ==
  [][InsertOfOversize => last'.ret = -1 /\ CacheUnchanged]_vars

\* C8 as the code has it: cache_insert with size > max_size leaves the cache
\* unchanged; it returns -1 when the key is absent and 0 when it is present.
OversizeLeavesCache ==
  [][InsertOfOversize =>
       /\ last'.ret = (IF last'.present THEN 0 ELSE -1)
       /\ CacheUnchanged]_vars

\* an oversize value has been inserted for a present key: the call returned 0
OversizeWitness ==
  /\ fault = "none"
  /\ last.op = "insert"
  /\ Len(last.val) > cache.max_size
  /\ last.present
  /\ last.ret = 0

\* the step is a cache_insert call that stores a new entry
InsertOfNew ==
  last'.op = "insert" /\ ~last'.present /\ Len(last'.val) <= cache.max_size

\* the step is a cache_find call of a key that was in the map
FindOfPresent == last'.op = "find" /\ last'.present

\* C9: an insert that evicts removes the entries used longest ago (what
\* stays is the front of the order of last use, the new key put first), and
\* a successful cache_find(k) makes k the most recently used entry, the
\* head of the recency list, keeping the order of the others.
LruOrder ==
  [][fault' = "none" =>
       /\ InsertOfNew => IsPrefix(used', <<last'.key>> \o used)
       /\ FindOfPresent =>
            /\ last'.ret # NULL
            /\ LruKeys' # <<>>
            /\ LruKeys'[1] = last'.key]_vars

\* C10: from the empty cache with max_size M, after cache_insert of n
\* distinct keys of value size s <= M, exactly min(n, M / s) entries are
\* live, they are the keys inserted last, and the list has them newest first.
EvictsNoMoreThanNeeded ==
  (fault = "none" /\ hist.on /\ hist.keys # <<>>) =>
    LET n == Len(hist.keys)
        m == Min(n, cache.max_size \div hist.s)
        newest == Reverse(SubSeq(hist.keys, n - m + 1, n))
    IN /\ cache.map.length = m
       /\ cache.lru_list.length = m
       /\ LruKeys = newest
       /\ { blocks[b].key : b \in Findable } = { newest[i] : i \in 1..m }

\* more keys than fit have been inserted, and more than one is live
EvictsNoMoreWitness ==
  /\ fault = "none"
  /\ hist.on
  /\ Len(hist.keys) = NumKeys
  /\ cache.map.length >= 2
  /\ cache.map.length < NumKeys

RECURSIVE live_ring(_, _, _, _)
live_ring(nds, n, first, k) ==
  IF n = NULL \/ k = 0 \/ nds[n].st # "live" THEN {}
  ELSE {n} \cup (IF nds[n].next = first THEN {}
                 ELSE live_ring(nds, nds[n].next, first, k - 1))

\* the nodes of the recency list: those reachable from lru_list->head
RingNodes ==
  live_ring(nodes, cache.lru_list.head, cache.lru_list.head, MaxNodes)

\* C12: after every completed call the hash index and the recency list have
\* the same length, and every block the index refers to is the value of
\* exactly one node reachable from lru_list->head.
IndexMatchesList ==
  fault = "none" =>
    /\ cache.map.length = cache.lru_list.length
    /\ \A b \in MapBlocks(cache) :
         Cardinality({ n \in RingNodes : nodes[n].value = b }) = 1

\* C13: when an allocation of cache_insert finds no memory (the block, or
\* the larger hash table), the call leaves the cache as it was: cache->size,
\* the findable keys and the recency list.
AllocFailureLeavesCache ==
  [][(last'.op = "insert" /\ last'.oom) => CacheUnchanged]_vars

\* the readers a block counts: block_t has the fields key, value, size and
\* keylen, and neither cache_find nor any other function keeps a count
refcount(blks, b) ==
  IF "refcount" \in DOMAIN blks[b] THEN blks[b].refcount ELSE 0

\* C14: a successful cache_find leaves the found entry with one outstanding
\* reader counted (refcount 1, from 0).
FindCountsReader ==
  (fault = "none" /\ last.op = "find" /\ last.ret # NULL)
  => refcount(blocks, last.ret) = 1

\* C15: cache_insert stores copies.  After the caller has overwritten and
\* freed its key and value buffers, cache_find of the key returns a live
\* block with the inserted bytes, and every key pointer of the hash index
\* refers to the key buffer of a live block, never to the caller's buffer.
CallerBuffersCopied ==
  fault = "none" =>
    /\ (last.op = "insert" /\ ~last.present
        /\ Len(last.val) <= cache.max_size)
       => LET r == FindNow(last.key) IN
          /\ ~Faulted(r)
          /\ ~r.ub
          /\ r.ret # NULL
          /\ r.blocks[r.ret].st = "live"
          /\ r.blocks[r.ret].key = last.key
          /\ r.blocks[r.ret].value = last.val
    /\ \A i \in NonEmptyBins(cache.map) :
         /\ blocks[cache.map.bins[i].key].st = "live"
         /\ cache.map.bins[i].key = cache.map.bins[i].value

\* an entry inserted from buffers the caller has freed since is in the cache
\* next to an older one
CallerBuffersWitness ==
  /\ fault = "none"
  /\ last.op = "insert"
  /\ ~last.present
  /\ last.ret = 0
  /\ last.len >= 1
  /\ cache.map.length = 2

(* ------------------------- the queue's admissions ---------------------- *)

\* worker w takes a step out of position p
StepFrom(w, p) == pc[w] = p /\ pc'[w] # p

\* the step is a call of rw_queue_request_read / rw_queue_request_write
RequestStep == \E w \in Workers : StepFrom(w, "start") \/ StepFrom(w, "relay")

\* the step is a call of rw_queue_release
ReleaseStep ==
  \E w \in Workers :
    \/ StepFrom(w, "release_hit")
    \/ StepFrom(w, "release_miss")
    \/ StepFrom(w, "release_write")

\* a writer token is among the tokens q of the queue
WriterIn(tk, q) == \E j \in 1..Len(q) : ~tk[q[j]].is_reader

\* how many of the first i tokens of q are reader tokens
ReadersIn(tk, q, i) == Cardinality({ j \in 1..i : tk[q[j]].is_reader })

\* C16: tokens leave the queue at its head and enter it at its tail, so they
\* are admitted in the order they were enqueued; a request that arrives
\* while a writer token is queued is not admitted but enqueued behind it;
\* and each token a release dequeues is admitted: its count is incremented.
FifoAdmission ==
  [][fault' = "none" =>
       LET q == Queued(g_rw_queue, toks)
           r == Queued(g_rw_queue', toks')
           n == Len(q) - Len(r)
       IN /\ \/ /\ n = -1
                /\ r = Append(q, r[Len(r)])
                /\ ~InSeq(r[Len(r)], q)
             \/ n >= 0 /\ r = SubSeq(q, n + 1, Len(q))
          /\ (RequestStep /\ WriterIn(toks, q))
             => /\ Len(r) = Len(q) + 1
                /\ g_rw_queue'.reading_count = g_rw_queue.reading_count
                /\ g_rw_queue'.writing_count = g_rw_queue.writing_count
          /\ ReleaseStep
             => LET dr == ReadersIn(toks, q, n)
                    held == g_rw_queue.writing_count > 0
                IN /\ n >= 0
                   /\ n - dr \in {0, 1}
                   /\ n - dr = 1 => n = 1
                   /\ g_rw_queue'.reading_count =
                        g_rw_queue.reading_count - (IF held THEN 0 ELSE 1) + dr
                   /\ g_rw_queue'.writing_count =
                        g_rw_queue.writing_count - (IF held THEN 1 ELSE 0)
                        + (n - dr)]_vars

\* every worker has returned from thread_handle_relay: each request it issued
\* has been followed by its rw_queue_release
AllReleased == fault = "none" /\ \A w \in Workers : pc[w] = "done"

\* C17: once every worker that issued a request has called rw_queue_release,
\* no token is left in the queue: each one has been dequeued and admitted.
NoStarvation == AllReleased => g_rw_queue.head = NULL

(* --------------------------- the hash map's state ---------------------- *)

\* hashmap_find of key buffer k's bytes
MapFind(map, k) ==
  hashmap_find(map, blocks, MapKeyBytes(k), Len(MapKeyBytes(k)))

\* the key buffer the last call was given
LastKey == CHOOSE k \in MapKeyIds : MapKeyBytes(k) = last.key

\* C18: after any sequence of hashmap_insert and hashmap_delete calls from
\* hashmap_init(1), through every upsize and downsize, map->length is the
\* number of keys the reference map holds, and hashmap_find returns the
\* reference map's latest value for a key it holds and NULL for the others.
MapAgrees ==
  /\ cache.map.length = Cardinality({ k \in MapKeyIds : hist[k] # NULL })
  /\ \A k \in MapKeyIds : MapFind(cache.map, k) = hist[k]

\* a delete has just halved the table, which had grown to 8 bins
MapAgreesWitness ==
  /\ last.op = "hashmap_delete"
  /\ last.size = 8
  /\ cache.map.size = 4
  /\ cache.map.length = 2

\* C19: hashmap_insert of a key that is in the map makes hashmap_find return
\* the new value, leaves map->length as it was and leaves what hashmap_find
\* returns for every other key as it was.
InsertOverwrites ==
  [][(last'.op = "hashmap_insert" /\ MapFind(cache.map, LastKey') # NULL)
       => /\ last'.ret = last'.val
          /\ MapFind(cache'.map, LastKey') = last'.val
          /\ cache'.map.length = cache.map.length
          /\ \A k \in MapKeyIds \ {LastKey'} :
               MapFind(cache'.map, k) = MapFind(cache.map, k)]_vars

\* an insert has just replaced the value of a key by another value, in a
\* table that it also had to grow
InsertOverwritesWitness ==
  /\ last.op = "hashmap_insert"
  /\ last.present
  /\ last.size < cache.map.size
  /\ \E k \in MapKeyIds : k # LastKey /\ hist[k] # NULL /\ hist[k] # last.val

\* C20: hashmap_delete of a key that is in the map returns its value, takes
\* one off map->length and makes hashmap_find of the key return NULL, while
\* hashmap_find of every other key returns what it did; hashmap_delete of a
\* key that is not in the map returns NULL and leaves length and bins alone.
DeleteRemoves ==
  [][last'.op = "hashmap_delete"
       => IF MapFind(cache.map, LastKey') # NULL
          THEN /\ last'.ret = MapFind(cache.map, LastKey')
               /\ cache'.map.length = cache.map.length - 1
               /\ MapFind(cache'.map, LastKey') = NULL
               /\ \A k \in MapKeyIds \ {LastKey'} :
                    MapFind(cache'.map, k) = MapFind(cache.map, k)
          ELSE /\ last'.ret = NULL
               /\ cache'.map = cache.map]_vars

\* a delete has just removed a key from a table in which a key that stays
\* sits behind its ideal bin
DeleteRemovesWitness ==
  /\ last.op = "hashmap_delete"
  /\ last.present
  /\ last.ret # NULL
  /\ \E i \in 0..(cache.map.size - 1) :
       cache.map.bins[i].key # NULL /\ cache.map.bins[i].psl > 0

\* C21: after every hashmap_insert the load factor length / size is below
\* 0.85 (as a comparison of integers: 100 * length < 85 * size).
LoadBelow85 ==
  last.op = "hashmap_insert" => 100 * cache.map.length < 85 * cache.map.size

\* C22: after every hashmap_delete the load factor length / size is above
\* 0.40 (100 * length > 40 * size) unless the table has its minimal size.
LoadAbove40 ==
  last.op = "hashmap_delete"
    => \/ cache.map.size = cache.map.minsize
       \/ 100 * cache.map.length > 40 * cache.map.size

(* ----------------------------- the list's state ------------------------ *)

\* the nodes a walk from node n along next meets until it is back at the
\* node first, k steps at most
RECURSIVE next_walk(_, _, _, _)
next_walk(nds, n, first, k) ==
  IF n = NULL \/ k = 0 THEN <<>>
  ELSE <<n>> \o (IF nds[n].next = first THEN <<>>
                 ELSE next_walk(nds, nds[n].next, first, k - 1))

\* the traversal of the list from list->head
ListWalk ==
  next_walk(nodes, cache.lru_list.head, cache.lru_list.head, MaxNodes + 1)

\* the values of the nodes in the list
ListedVals == { nodes[used[i]].value : i \in 1..Len(used) }

\* C23: list_delete of a node in the list, the head included, takes one off
\* list->length and leaves a list whose traversal from list->head along next
\* comes back to list->head having met the nodes that remain and not the
\* removed one; list_find of a value that is not in the list returns NULL.
ListDeleteUnlinks ==
  last.op = "list_delete"
    => /\ cache.lru_list.length = last.len - 1
       /\ Len(ListWalk) = Len(used)
       /\ ~InSeq(last.ret, ListWalk)
       /\ \A i \in 1..Len(used) : InSeq(used[i], ListWalk)
       /\ \A v \in ListVals \ ListedVals :
            LET r == list_find(St, v) IN ~Faulted(r) /\ r.ret = NULL

\* the readers of SpecRace have both come back from cache_find, each with
\* its own key
BothFound ==
  /\ fault = "none"
  /\ \A w \in Racers : pc[w] = "write_client"
  /\ \A v, w \in Racers : v # w => wkey[v] # wkey[w]

\* next and prev are inverse around the ring of the head, the ring has
\* length nodes, and every block of the map is the value of exactly one
\* of them
ListWellFormed ==
  /\ Len(ListWalk) = cache.lru_list.length
  /\ \A i \in 1..Len(ListWalk) :
       LET n == ListWalk[i] IN
       /\ nodes[n].next # NULL /\ nodes[nodes[n].next].prev = n
       /\ nodes[n].prev # NULL /\ nodes[nodes[n].prev].next = n
  /\ \A i \in NonEmptyBins(cache.map) :
       Cardinality({ j \in 1..Len(ListWalk) :
                       nodes[ListWalk[j]].value = cache.map.bins[i].value })
         = 1

\* C24: when two readers are inside cache_find at the same time and hit
\* different keys, the recency list is well formed once both have come
\* back: next and prev stay inverse, the length is the number of nodes, and
\* every live entry is in the list exactly once.
ConcurrentFindKeepsList == BothFound => ListWellFormed

(* ----------------------- the queue's three functions ------------------- *)

AfterDrop == g_rw_queue.writing_count - (IF g_rw_queue.writing_count > 0
                                         THEN 1 ELSE 0)

\* C26: wherever a writer is admitted (writing_count goes from 0 to 1, in
\* rw_queue_request_write or in rw_queue_release after the releaser's count
\* is dropped), reading_count is 0, writing_count was 0, and no token
\* enqueued before that writer is still waiting: the queue is empty, or the
\* writer's token is the head that is dequeued.
WriterAdmittedAlone ==
  [][fault' = "none" =>
       /\ \A w \in Workers :
            (StepFrom(w, "relay")
               /\ g_rw_queue'.writing_count # g_rw_queue.writing_count)
              => /\ g_rw_queue.reading_count = 0
                 /\ g_rw_queue.writing_count = 0
                 /\ g_rw_queue'.writing_count = 1
                 /\ g_rw_queue'.reading_count = 0
                 /\ g_rw_queue.head = NULL
                 /\ g_rw_queue'.head = NULL
       /\ (ReleaseStep /\ g_rw_queue'.writing_count = AfterDrop + 1)
            => /\ AfterDrop = 0
               /\ g_rw_queue'.reading_count = 0
               /\ g_rw_queue.head # NULL
               /\ ~toks[g_rw_queue.head].is_reader
               /\ g_rw_queue'.head = toks[g_rw_queue.head].next
       /\ g_rw_queue'.writing_count \in {0, 1}]_vars

\* a writer whose token was queued behind another has been dequeued and
\* admitted by a release
WriterAdmittedAloneWitness ==
  /\ fault = "none"
  /\ g_rw_queue.writing_count = 1
  /\ g_rw_queue.reading_count = 0
  /\ \E w \in Workers :
       /\ pc[w] \in {"in_insert", "release_write"}
       /\ toks[writer_tok(w)].next # NULL
       /\ ~InSeq(writer_tok(w), Queued(g_rw_queue, toks))

\* reading_count as rw_queue_release leaves it before it looks at the queue
ReadingAfterDrop ==
  g_rw_queue.reading_count - (IF g_rw_queue.writing_count > 0 THEN 0 ELSE 1)

\* how many reader tokens stand at the head of q before its first writer
ReaderPrefix(tk, q) ==
  CHOOSE n \in 0..Len(q) :
    /\ \A j \in 1..n : tk[q[j]].is_reader
    /\ n = Len(q) \/ ~tk[q[n + 1]].is_reader

\* C27: rw_queue_release, after it has dropped the releaser's count: with a
\* writer at the head and reading_count 0 it admits that writer and nobody
\* else; with a reader at the head it admits that reader and the readers
\* directly behind it, up to the first writer; with a writer at the head and
\* reading_count not 0, or with an empty queue, it admits nobody.
ReleaseAdmits ==
  [][(ReleaseStep /\ fault' = "none") =>
       LET q == Queued(g_rw_queue, toks)
           r == Queued(g_rw_queue', toks')
           n == ReaderPrefix(toks, q)
       IN IF q = <<>> \/ (~toks[q[1]].is_reader /\ ReadingAfterDrop # 0)
          THEN /\ r = q
               /\ g_rw_queue'.reading_count = ReadingAfterDrop
               /\ g_rw_queue'.writing_count = AfterDrop
          ELSE IF ~toks[q[1]].is_reader
          THEN /\ r = Tail(q)
               /\ g_rw_queue'.reading_count = ReadingAfterDrop
               /\ g_rw_queue'.writing_count = AfterDrop + 1
          ELSE /\ r = SubSeq(q, n + 1, Len(q))
               /\ g_rw_queue'.reading_count = ReadingAfterDrop + n
               /\ g_rw_queue'.writing_count = AfterDrop]_vars

\* two readers whose tokens stood one behind the other have been dequeued
ReleaseAdmitsWitness ==
  /\ fault = "none"
  /\ \E v, w \in Workers :
       /\ v # w
       /\ pc[v] \notin {"idle", "done"}
       /\ pc[w] \notin {"idle", "done"}
       /\ toks[reader_tok(v)].is_reader
       /\ toks[reader_tok(w)].is_reader
       /\ toks[reader_tok(v)].next = reader_tok(w)
       /\ ~InSeq(reader_tok(v), Queued(g_rw_queue, toks))
       /\ ~InSeq(reader_tok(w), Queued(g_rw_queue, toks))

\* worker w has issued a request and not yet called rw_queue_release
InSection(w) ==
  pc[w] \in {"in_find", "write_client", "release_hit", "release_miss",
             "in_insert", "release_write"}

\* C28: every rw_queue_request_read / rw_queue_request_write of a worker is
\* followed by exactly one rw_queue_release of that worker on each path
\* through thread_handle_relay (hit, miss, after cache_insert), and no worker
\* releases without a request of its own: the requests the queue holds
\* (counted or queued) are those of the workers between a request and its
\* release, one each.
ReleasesMatchRequests ==
  fault = "none" =>
    g_rw_queue.reading_count + g_rw_queue.writing_count
        + Len(Queued(g_rw_queue, toks))
      = Cardinality({ w \in Workers : InSection(w) })

\* every thread has run to its end, one of them through the miss path and
\* cache_insert, and the queue holds nothing
ReleasesMatchRequestsWitness ==
  /\ AllReleased
  /\ cache.map.length >= 1
  /\ g_rw_queue.reading_count = 0
  /\ g_rw_queue.writing_count = 0
  /\ g_rw_queue.head = NULL

(* --------------------------- the hash map's bins ----------------------- *)

\* the bin at distance n from the ideal slot of the entry in bin i
ProbeBin(map, i, n) == map.bins[((map.bins[i].hash % map.size) + n) % map.size]

\* C29: in every state hashmap_insert, hashmap_delete and the resizes reach,
\* each non-empty bin at index i stores psl = (i - hash mod size) mod size,
\* and every bin at a distance n < psl from that entry's ideal slot is
\* non-empty and has psl >= n.
RobinHood ==
  \A i \in NonEmptyBins(cache.map) :
    LET bin == cache.map.bins[i] IN
    /\ bin.psl = (i - (bin.hash % cache.map.size)) % cache.map.size
    /\ \A n \in 0..(bin.psl - 1) :
         /\ ProbeBin(cache.map, i, n).key # NULL
         /\ ProbeBin(cache.map, i, n).psl >= n

\* a delete has shifted entries back and left one two bins away from its
\* ideal slot, in a table of 4 bins or more
RobinHoodWitness ==
  /\ last.op = "hashmap_delete"
  /\ last.ret # NULL
  /\ cache.map.size >= 4
  /\ \E i \in NonEmptyBins(cache.map) : cache.map.bins[i].psl >= 2

\* C30 as stated: map->size never drops below map->minsize (>= 1), and it
\* changes only by doubling inside hashmap_insert or by halving, floored at
\* minsize, inside hashmap_delete, the latter only when
\* minsize < length < floor(0.40 * size) after the removal.
SizeDoublesOrHalves ==
  /\ cache.map.minsize >= 1
  /\ cache.map.size >= cache.map.minsize
  /\ cache.map.size # last.size =>
       \/ /\ last.op = "hashmap_insert"
          /\ cache.map.size = 2 * last.size
       \/ /\ last.op = "hashmap_delete"
          /\ cache.map.size = Max(last.size \div 2, cache.map.minsize)
          /\ cache.map.minsize < cache.map.length
          /\ cache.map.length < (40 * last.size) \div 100

\* C30, amended: map->size never drops below map->minsize (>= 1), and it
\* changes only inside hashmap_insert, to twice the size or, for a table of
\* more than 1048576 bins, to the size plus 1048576, or inside
\* hashmap_delete by halving, floored at minsize, the latter only when
\* minsize < length < floor(0.40 * size) after the removal.
SizeGrowsCappedOrHalves ==
  /\ cache.map.minsize >= 1
  /\ cache.map.size >= cache.map.minsize
  /\ cache.map.size # last.size =>
       \/ /\ last.op = "hashmap_insert"
          /\ cache.map.size =
               IF last.size > HASHMAP_MAX_GROWTH_STEP
               THEN last.size + HASHMAP_MAX_GROWTH_STEP
               ELSE 2 * last.size
       \/ /\ last.op = "hashmap_delete"
          /\ cache.map.size = Max(last.size \div 2, cache.map.minsize)
          /\ cache.map.minsize < cache.map.length
          /\ cache.map.length < (40 * last.size) \div 100

\* an insert has grown a table of 2097152 bins by 1048576 bins
SizeGrowsCappedWitness ==
  /\ last.op = "hashmap_insert"
  /\ last.size = 2 * HASHMAP_MAX_GROWTH_STEP
  /\ cache.map.size = 3 * HASHMAP_MAX_GROWTH_STEP

(* ---------------------- the hash map's failures ------------------------ *)

ListMatchesMap ==
  fault = "none" =>
    /\ (cache.lru_list.head = NULL) <=> (cache.map.length = 0)
    /\ cache.lru_list.length = cache.map.length

(* ------------------------- the cached responses ------------------------ *)

\* the value the cache holds for the uri of worker w, <<>> when it has none
CachedFor(w) ==
  LET b == hashmap_find(cache.map, blocks, wkey[w], Len(wkey[w])) IN
  IF b = NULL THEN <<>> ELSE blocks[b].value

\* C33: when a worker has inserted the upstream response into the cache, the
\* cached value has the length and the bytes of what it relayed to the
\* client, and a response relayed whole is shorter than MAX_OBJECT_SIZE:
\* longer ones are not inserted.
CachedIsRelayed ==
  \A w \in Workers :
    (fault = "none" /\ last.op = "relay" /\ pc[w] = "release_write") =>
      /\ InMap(cache, blocks, wkey[w])
      /\ CachedFor(w) = last.sent
      /\ last.sent = last.response => Len(last.response) < RelayObjectSize

\* the same for responses that are not RelayObjectSize - 1 bytes long
CachedIsRelayedButOne ==
  Len(last.response) # RelayObjectSize - 1 => CachedIsRelayed

(* --------------------------- the eviction loop -------------------------- *)

\* no cell of the heap has been freed and is still pointed to
NoFreedCells ==
  /\ \A n \in NodeIds : nodes[n].st # "dead"
  /\ \A b \in BlockIds : blocks[b].st # "dead"

\* C34: the eviction loop of cache_insert never reads a list node that has
\* been freed: a cache_insert of a value that fits the cache, called while
\* no pointer of the cache is dangling, reads and frees live cells only,
\* also when it evicts two entries or more.
EvictionReadsLiveNodes ==
  [][(last'.op = "insert" /\ NoFreedCells
      /\ Len(last'.val) <= cache.max_size) => uaf' = uaf]_vars

(* ------------------------- the tokens' lifetime ------------------------- *)

\* C35: a token that is linked in the waiter queue belongs to a worker that
\* is still running thread_handle_relay: no token stays queued after its
\* owner has released and exited, so rw_queue_release never reads the token
\* of a worker that has returned.
QueuedTokensAlive ==
  fault = "none" =>
    \A t \in TokIds :
      InSeq(t, Queued(g_rw_queue, toks)) => t \in LiveToks

(* -------------------------- the queue's counts -------------------------- *)

\* C36: in every state of the reader/writer queue reading_count is not
\* negative, writing_count is 0 or 1, and readers and a writer are never
\* counted together.
CountsInRange ==
  fault = "none" =>
    /\ g_rw_queue.reading_count >= 0
    /\ g_rw_queue.writing_count \in {0, 1}
    /\ g_rw_queue.reading_count > 0 => g_rw_queue.writing_count = 0

\* C37: once every worker has made its matching rw_queue_release the queue
\* is as rw_queue_init left it: both counts 0 and no token linked.
QueueBackToInit ==
  AllReleased =>
    /\ g_rw_queue.reading_count = 0
    /\ g_rw_queue.writing_count = 0
    /\ g_rw_queue.head = NULL
    /\ g_rw_queue.tail = NULL

(* ---------------------- the probe loops' termination -------------------- *)

\* the bins hashmap_find and hashmap_delete look at for the key of buffer k
FindProbes(k) ==
  LET key == MapKeyBytes(k)
      hash == get_hash(key, Len(key))
  IN find_probes(cache.map, blocks, key, Len(key), hash, 0,
                 hash % cache.map.size)

DeleteProbes(k) ==
  LET key == MapKeyBytes(k)
      hash == get_hash(key, Len(key))
  IN delete_probes(cache.map, blocks, key, Len(key), hash, 0,
                   hash % cache.map.size)

\* the table hashmap_insert hands to hashmap_insert_no_resize has a free
\* bin: the table itself up to 85 percent, a larger and empty one, filled
\* with the entries it had, above
InsertHasRoom(map) ==
  map.length < (IF map.length > approx_85_percent(map.size)
                THEN upsize_to(map.size) ELSE map.size)

\* so has the smaller table hashmap_delete re-inserts the entries it keeps
\* into
DownsizeHasRoom(map) ==
  LET m == [map EXCEPT !.length = @ - 1] IN
  (map.length > 0 /\ wants_downsize(m, approx_40_percent(map.size)))
    => m.length <= downsize_to(m)

\* C38: every probe loop ends on every reachable table:
\* hashmap_insert_no_resize is entered with length < size only, and
\* hashmap_find and hashmap_delete look at size + 1 bins at most, also in a
\* table without an empty bin, and return NULL for a key that is not there.
ProbeLoopsEnd ==
  /\ InsertHasRoom(cache.map)
  /\ DownsizeHasRoom(cache.map)
  /\ \A k \in MapKeyIds :
       /\ FindProbes(k) <= cache.map.size + 1
       /\ DeleteProbes(k) <= cache.map.size + 1
       /\ hist[k] = NULL =>
            /\ MapFind(cache.map, k) = NULL
            /\ hashmap_delete(cache.map, blocks, MapKeyBytes(k),
                              Len(MapKeyBytes(k))).ret = NULL

\* a table of two bins or more without an empty bin, and a key that is not
\* in it whose search goes once around the table
ProbeLoopsWitness ==
  /\ cache.map.size >= 2
  /\ cache.map.length = cache.map.size
  /\ \E k \in MapKeyIds :
       /\ hist[k] = NULL
       /\ FindProbes(k) = cache.map.size + 1
       /\ DeleteProbes(k) = cache.map.size + 1

=============================================================================
